---- MODULE Spec2Model ----
(***************************************************************************)
(* A model of the ingestion pipeline of grafana-log-viewer: range          *)
(* reconciliation (check_signal_range), batched sending (send_signal,      *)
(* send_signal_using_json_lines), dispatch and merging of the per-signal   *)
(* sent counts, the recording catalog and the pipeline drivers.            *)
(*                                                                         *)
(* Time is counted in whole milliseconds, the resolution of the remote     *)
(* store: a signal's timestamps are offsets from the recording's           *)
(* start_time, the remote store holds absolute timestamps.                 *)
(***************************************************************************)
EXTENDS Integers, Sequences, FiniteSets, TLC

\* ---------------------------------------------------------------- bounds
MaxT == 4          \* largest timestamp offset of a signal, in ms
MaxLen == 3        \* most samples of a signal with free timestamps
MaxBatch == 2      \* largest batch_size tried by the sending specification
StartShift == 10   \* start_time of the recording, in ms
MaxFails == 1      \* most upload calls of one send that raise
MaxN == 7          \* most samples of a signal sent to the batch encoders
MaxEncBatch == 3   \* largest batch_size given to the batch encoders
MaxLabelHits == 1  \* most occurrences of the word "values" in a metric's labels
MaxUnits == 2      \* most work items (channels, batches) of one dispatcher
MaxNames == 2      \* distinct signal names
MaxCount == 2      \* most samples one send reports
MaxChannels == 2   \* most channels of one decoded recording
MaxRecs == 2       \* recordings (captures) with files under the root
MaxCopies == 2     \* largest copy suffix " (n)" of a file name
MaxFiles == 3      \* most .mf4 files under the root
MaxCatalog == 3    \* most files the driver's catalog step finds
MaxKeys == 2       \* most keys given to one download_files_from_s3 call
MaxRetries == 2    \* largest max_retries of a download_files_from_s3 call
MaxGroup == 3      \* most files of one group that is concatenated or stacked
MaxHashes == 2     \* distinct suffixes "-<hash>" of the downloaded files
MaxStack == 3      \* largest stack_size of send_files_to_victoriametrics
MaxWorkers == 2    \* largest max_workers of download_files_from_s3
MaxSpan == 50      \* longest end_date - start_date of get_metrics_from_vm, in ticks
TicksPerHour == 2  \* the ticks of an hour
HoursPerDay == 24
MaxMonth == 3      \* the last month a datetime can hold, counted from the first start_time
MaxCallers == 2    \* the threads that call the MetricsManager
MaxBuffer == 2     \* largest batch_limit of the MetricsManager
MaxSenders == 2    \* most send_signal workers of one pool
MaxPosts == 2      \* most batches one send_signal posts

\* eps of check_signal_range, in ms
Eps == 1

VARIABLES
  signal,      \* the decoded Signal: a sequence of samples [ts, valid, orig]
  start_time,  \* the recording's start time (absolute, ms)
  remote,      \* absolute timestamps the remote store holds for the series
  opts,        \* the options the caller passes to send_signal
  sends,       \* the send_signal calls made so far, oldest first
  checked,     \* the last stand-alone check_signal_range call
  mode,                  \* the dispatcher that runs
  units,                 \* its work items: channels, batches or files
  futures,               \* per work item: the state of its worker
  signals_sample_count,  \* the dispatcher's dict of counts per signal name
  num_of_samples,        \* process_files' running total
  pc,                    \* where the dispatcher's own thread is
  result,                \* the dict send_decoded / send_file is filling
  cursor,                \* <<file, channel>> the sequential dispatcher is at
  scanner,     \* the get_unique_filepaths that runs, and its start / end
  pending,     \* files under base_dir that rglob has not yielded yet
  filtered,    \* get_unique_filepaths' list of accepted (file, start time)
  listed,      \* get_unique_filepaths has returned
  scan_raised, \* the scan was left by an exception
  in_pool,     \* the futures of the scan whose result has not been taken
  driver,      \* the script whose main_post_to_victoriametrics runs
  run_pc,      \* where main_post_to_victoriametrics is
  probe,       \* the answer to the request of is_victoriametrics_online
  online,      \* what is_victoriametrics_online returned
  files_left,  \* files found by the catalog step and not sent yet
  decoded,     \* the file at hand has been decoded and waits to be sent
  calls,       \* decode and upload calls made so far
  exit_status, \* the exit status of the process
  download,    \* the arguments of the download_files_from_s3 call
  local_files, \* the paths that exist under download_path
  next_key,    \* the position in keys the submitting comprehension is at
  downloads,   \* future_to_key: the submitted download_with_retry calls
  count,       \* download_files_from_s3's count
  dl_pc,       \* where download_files_from_s3 is
  group,       \* the group of files given to decode_and_send / process_batch
  joined,      \* how MDF().concatenate / MDF().stack of the group ended
  file_at,     \* the file the per-file loop of decode_and_send is at
  file_sent,   \* per file of the group: its samples were sent
  group_count, \* the samples counted for the group
  grp_pc,      \* where decode_and_send / process_batch is
  roots,          \* the CANEdge and CANCloud folders and the arguments
  canedge_files,  \* get_all_unique_d65_files' canedge_files
  cancloud_files, \* get_all_unique_d65_files' cancloud_files
  full_list,      \* get_all_unique_d65_files' full_list
  full_order,     \* full_list in the order of the returned list
  uq_pc,          \* where get_all_unique_d65_files is
  dispatch,      \* the send_file / send_decoded call with a skip predicate
  chan_at,       \* the channel its loop is at
  sent_signals,  \* the names send_signal was called on, in order
  sent_counts,   \* the dict the call returns
  sk_pc,         \* where the call is
  stack,      \* files and stack_size of D65 send_files_to_victoriametrics
  batch_at,   \* the index in files its loop is at
  decodes,    \* the extract_bus_logging calls made: job, definitions, files
  st_pc,      \* where send_files_to_victoriametrics is
  skip_passed, \* the skip_signal_range_check each send_decoded was given
  responding, \* the remote store answers the requests it gets
  remote_pc,  \* where the driver of the pool is
  senders,    \* the send_signal workers of the pool
  vm_range,   \* start_date and end_date of get_metrics_from_vm
  vm_windows, \* the query windows submitted so far
  vm_pc,      \* where get_metrics_from_vm is
  tms_start_time, \* start_time of the SnowLeopardTMS driver, as a month
  tms_filtered,   \* its list `filtered`: the months of the recordings left
  tms_chunks,     \* the chunks it has given to process_files
  tms_pc,         \* where the driver is
  mm_calls,       \* per calling thread: the method of MetricsManager it is in
  mm_mutex,       \* the thread that holds self.mutex, 0 when it is free
  mm_buffer,      \* len(self.buffer)
  mm_manager      \* batch_limit and running of the MetricsManager

sendVars == <<signal, start_time, remote, opts, sends, checked>>
poolVars == <<mode, units, futures, signals_sample_count, num_of_samples, pc,
              result, cursor>>
scanVars == <<scanner, pending, filtered, listed, scan_raised, in_pool>>
runVars == <<driver, run_pc, probe, online, files_left, decoded, calls,
             exit_status>>
loadVars == <<download, local_files, next_key, downloads, count, dl_pc>>
groupVars == <<group, joined, file_at, file_sent, group_count, grp_pc>>
uniqueVars == <<roots, canedge_files, cancloud_files, full_list, full_order, uq_pc>>
skipVars == <<dispatch, chan_at, sent_signals, sent_counts, sk_pc>>
stackVars == <<stack, batch_at, decodes, st_pc, skip_passed>>
remoteVars == <<responding, remote_pc, senders>>
metricVars == <<vm_range, vm_windows, vm_pc>>
monthVars == <<tms_start_time, tms_filtered, tms_chunks, tms_pc>>
managerVars == <<mm_calls, mm_mutex, mm_buffer, mm_manager>>
sideVars == <<loadVars, groupVars, uniqueVars, skipVars, stackVars, remoteVars, metricVars, monthVars, managerVars>>
vars == <<sendVars, poolVars, scanVars, runVars, sideVars>>

\* no download runs
NoLoad ==
  /\ download = [keys |-> <<>>, max_retries |-> 0, bucket_valid |-> TRUE,
                 existed |-> {}]
  /\ local_files = {} /\ next_key = 0 /\ downloads = <<>>
  /\ count = 0 /\ dl_pc = "idle"

\* no group is processed
NoGroup ==
  /\ group = [fn |-> "none", concat_first |-> FALSE, files |-> <<>>]
  /\ joined = "none" /\ file_at = 0 /\ file_sent = <<>>
  /\ group_count = 0 /\ grp_pc = "idle"

\* no cross-root listing runs
NoUnique ==
  /\ roots = [edge |-> {}, cloud |-> {}, start |-> 0, end |-> 0, ignore_dchv_files |-> TRUE, sorted |-> TRUE, reverse_sort |-> FALSE]
  /\ canedge_files = {} /\ cancloud_files = {} /\ full_list = {} /\ full_order = <<>>
  /\ uq_pc = "idle"

\* no call with a skip predicate runs
NoSkip ==
  /\ dispatch = [path |-> "none", channels |-> <<>>, skip_given |-> FALSE, skip_names |-> {}]
  /\ chan_at = 0 /\ sent_signals = <<>> /\ sent_counts = <<>> /\ sk_pc = "idle"

\* no D65 send_files_to_victoriametrics runs
NoStack ==
  /\ stack = [fn |-> "none", files |-> <<>>, stack_size |-> 0]
  /\ batch_at = 0 /\ decodes = <<>> /\ st_pc = "idle" /\ skip_passed = <<>>

\* no remote call is in flight
NoRemote == responding = TRUE /\ remote_pc = "idle" /\ senders = <<>>

\* no range of metrics is fetched
NoMetric == vm_range = [start_date |-> 0, end_date |-> 0] /\ vm_windows = <<>> /\ vm_pc = "idle"

\* the SnowLeopardTMS driver does not run
NoMonth == tms_start_time = 0 /\ tms_filtered = <<>> /\ tms_chunks = <<>> /\ tms_pc = "idle"

\* there is no MetricsManager
NoManager == mm_calls = <<>> /\ mm_mutex = 0 /\ mm_buffer = 0 /\ mm_manager = [batch_limit |-> 0, running |-> FALSE]

\* none of the helpers runs
NoSide == NoLoad /\ NoGroup /\ NoUnique /\ NoSkip /\ NoStack /\ NoRemote /\ NoMetric /\ NoMonth /\ NoManager

\* no driver runs
NoRun ==
  /\ driver = "none" /\ run_pc = "idle"
  /\ probe = [kind |-> "none", code |-> 0] /\ online = "unset"
  /\ files_left = 0 /\ decoded = FALSE
  /\ calls = [decode |-> 0, upload |-> 0] /\ exit_status = -1

\* no catalog scan runs
NoScan ==
  /\ scanner = [fn |-> "none", start |-> 0, end |-> 0]
  /\ pending = {} /\ filtered = <<>> /\ listed = FALSE /\ scan_raised = FALSE
  /\ in_pool = <<>>

\* no dispatcher runs
NoPool ==
  /\ mode = "none" /\ units = <<>> /\ futures = <<>>
  /\ signals_sample_count = <<>> /\ num_of_samples = 0 /\ pc = "idle"
  /\ result = <<>> /\ cursor = <<0, 0>>

\* ------------------------------------------------------------- helpers
Max(a, b) == IF a >= b THEN a ELSE b
Min(a, b) == IF a <= b THEN a ELSE b
Range(s) == {s[i] : i \in DOMAIN s}

RECURSIVE SumSeq(_)
SumSeq(s) == IF s = <<>> THEN 0 ELSE s[1] + SumSeq(Tail(s))

\* the elements of a finite set of integers, ascending
RECURSIVE SortedSeq(_)
SortedSeq(S) ==
  IF S = {} THEN <<>>
  ELSE LET m == CHOOSE x \in S : \A y \in S : x <= y
       IN <<m>> \o SortedSeq(S \ {m})

\* ------------------------------------------------------------- signals
\* A sample of a Signal: its timestamp (offset, ms), whether float(sample)
\* succeeds, and its position in the decoded signal (0: a sample that
\* Signal.cut computed by interpolation).
Sample(t, v, o) == [ts |-> t, valid |-> v, orig |-> o]

Timestamps(sig) == [i \in DOMAIN sig |-> sig[i].ts]

NonDecreasing(sig) == \A i \in 1..(Len(sig) - 1) : sig[i].ts <= sig[i + 1].ts

\* every signal of n samples with non-decreasing timestamps in 0..MaxT
SignalsOfLen(n) ==
  { [i \in 1..n |-> Sample(f[i][1], f[i][2], i)] :
      f \in { g \in [1..n -> (0..MaxT) \X BOOLEAN] :
                \A i \in 1..(n - 1) : g[i][1] <= g[i + 1][1] } }

ShortSignals == UNION { SignalsOfLen(n) : n \in 1..MaxLen }

\* the signals among them whose timestamps strictly increase
IncreasingSignals ==
  { sig \in ShortSignals : \A i \in 1..(Len(sig) - 1) : sig[i].ts < sig[i + 1].ts }

\* the signals of 0..MaxN samples taken every millisecond
RegularSignals ==
  UNION { { [i \in 1..n |-> Sample(i - 1, v[i], i)] : v \in [1..n -> BOOLEAN] } :
            n \in 0..MaxN }

\* is_valid_sample: float(sample) succeeds
is_valid_sample(sample) == sample.valid

\* ------------------------------------------------- asammdf Signal.cut
\* Signal.interp at one timestamp inside the signal's span: the new sample
\* is computed from its neighbours, it is no sample of the decoded signal.
Interp(sig, t) ==
  LET k == CHOOSE i \in DOMAIN sig :
             /\ sig[i].ts <= t
             /\ \A j \in DOMAIN sig : sig[j].ts <= t => j <= i
  IN Sample(t, sig[k].valid, 0)

HasTs(sig, t) == \E i \in DOMAIN sig : sig[i].ts = t

\* the sample of the cut signal at an end t of the cut range
EndSample(sig, t) ==
  IF HasTs(sig, t)
  THEN sig[CHOOSE i \in DOMAIN sig :
             sig[i].ts = t /\ \A j \in DOMAIN sig : sig[j].ts = t => i <= j]
  ELSE Interp(sig, t)

Within(sig, lo, hi) ==
  LET keep(s) == s.ts >= lo /\ s.ts <= hi IN SelectSeq(sig, keep)

\* The outcomes of signal.cut(start, stop) with the default include_ends=True:
\* a set of records [raised, sig, inverted].  The samples with
\* start <= ts <= stop are kept and the two ends are added by interpolation
\* when they are no timestamps of the signal.  A range that is inverted after
\* clamping to the signal's span is outside the documented behaviour of cut:
\* every outcome the library can produce is allowed (nothing, the two ends,
\* an IndexError) and the outcome is marked `inverted`.
CutResult(sig) == [raised |-> FALSE, sig |-> sig, inverted |-> FALSE]

Cut(sig, start, stop) ==
  IF Len(sig) = 0 THEN {CutResult(<<>>)}
  ELSE
    LET first == sig[1].ts
        last == sig[Len(sig)].ts
    IN IF start > last \/ stop < first
       THEN {CutResult(<<>>)}
       ELSE
         LET s == Max(start, first)
             e == Min(stop, last)
             head == IF HasTs(sig, s) THEN <<>> ELSE <<Interp(sig, s)>>
             tail == IF HasTs(sig, e) \/ e = s THEN <<>> ELSE <<Interp(sig, e)>>
         IN IF s <= e
            THEN {CutResult(head \o Within(sig, s, e) \o tail)}
            ELSE { [raised |-> FALSE, sig |-> <<>>, inverted |-> TRUE],
                   [raised |-> FALSE, inverted |-> TRUE,
                    sig |-> <<EndSample(sig, e), EndSample(sig, s)>>],
                   [raised |-> TRUE, sig |-> <<>>, inverted |-> TRUE] }

\* Signal.extend: other is appended; its timestamps are shifted by the last
\* timestamp of self when they do not lie after it.
Extend(self, other) ==
  IF Len(other) = 0 THEN self
  ELSE LET last_stamp == IF Len(self) > 0 THEN self[Len(self)].ts ELSE 0
           shift == IF last_stamp >= other[1].ts THEN last_stamp ELSE 0
       IN self \o [i \in DOMAIN other |->
                     Sample(other[i].ts + shift, other[i].valid, other[i].orig)]

\* ------------------------------------------------ check_signal_range
\* The answer of the export endpoint: kind "ok" is status 200 with a body
\* json.loads accepts (body: the returned timestamps, <<>> for an empty
\* text), "non200" another status, "timeout" an exception raised by
\* requests.get, "malformed" a 200 whose text cannot be parsed.
Response(kind, body) == [kind |-> kind, body |-> body]

\* what check_signal_range returns: None or a Signal (unspecified: the value
\* rests on a cut of an inverted range)
None == [none |-> TRUE, sig |-> <<>>, unspecified |-> FALSE]
Returned(sig) == [none |-> FALSE, sig |-> sig, unspecified |-> FALSE]
Unspecified(r, flag) == [none |-> r.none, sig |-> r.sig, unspecified |-> flag]

\* what a store that holds `rem` answers to the query of check_signal_range
ExportBody(rem, sig, st) ==
  SortedSeq({t \in rem : st + sig[1].ts <= t /\ t <= st + sig[Len(sig)].ts})

\* cut_existing without the eps that keeps the boundary samples out
cut_existing_no_eps(sig, st, body) ==
  LET cutstart == body[1] - st
      cutend == body[Len(body)] - st
      older_data == Cut(sig, sig[1].ts, cutstart)
      newer_data == Cut(sig, cutend, sig[Len(sig)].ts)
  IN { Unspecified(
         IF o.raised \/ n.raised
         THEN Returned(sig)
         ELSE LET newsig == Extend(o.sig, n.sig)
              IN IF Len(newsig) > 0 THEN Returned(newsig) ELSE None,
         o.inverted \/ n.inverted)
       : o \in older_data, n \in newer_data }

\* lines 107-126: cut away what the response covers
cut_existing(sig, st, body) ==
  LET respstart_ts == body[1]
      respend_ts == body[Len(body)]
      cutstart == respstart_ts - st
      cutend == respend_ts - st
      older_data == Cut(sig, sig[1].ts + Eps, cutstart - Eps)
      newer_data == Cut(sig, cutend + Eps, sig[Len(sig)].ts - Eps)
  IN { Unspecified(
         IF o.raised \/ n.raised
         THEN Returned(sig)           \* except Exception: ... return signal
         ELSE LET newsig == Extend(o.sig, n.sig)
              IN IF Len(newsig) > 0 THEN Returned(newsig) ELSE None,
         o.inverted \/ n.inverted)
       : o \in older_data, n \in newer_data }

\* check_signal_range that gives up the signal when the status is not 200
check_signal_range_fail_closed(sig, st, resp) ==
  IF resp.kind = "timeout" THEN {Returned(sig)}
  ELSE IF resp.kind = "non200" THEN {None}
  ELSE IF resp.kind = "ok" /\ resp.body = <<>> THEN {Returned(sig)}
  ELSE IF resp.kind = "malformed" THEN {Returned(sig)}
  ELSE cut_existing(sig, st, resp.body)

\* check_signal_range(signal, start_time, server): the set of values it can
\* return on a signal of at least one sample
check_signal_range(sig, st, resp) ==
  IF resp.kind = "timeout" THEN {Returned(sig)}
  ELSE IF resp.kind = "non200" THEN {Returned(sig)}
  ELSE IF resp.kind = "ok" /\ resp.body = <<>> THEN {Returned(sig)}
  ELSE IF resp.kind = "malformed" THEN {Returned(sig)}
  ELSE cut_existing(sig, st, resp.body)

\* ------------------------------------------------------- send_signal
\* lines 182-205: the batching loop. full: the batches flushed inside the
\* loop, rest: what is left in `batch` after it.
\* the loop flushing one sample late: len(batch) > batch_size
RECURSIVE batch_loop_late_flush(_, _, _, _)
batch_loop_late_flush(samples, batch_size, batch, full) ==
  IF samples = <<>> THEN [full |-> full, rest |-> batch]
  ELSE IF ~is_valid_sample(Head(samples))
       THEN batch_loop_late_flush(Tail(samples), batch_size, batch, full)
       ELSE LET b == Append(batch, Head(samples))
            IN IF Len(b) > batch_size
               THEN batch_loop_late_flush(Tail(samples), batch_size, <<>>,
                                          Append(full, b))
               ELSE batch_loop_late_flush(Tail(samples), batch_size, b, full)

RECURSIVE batch_loop(_, _, _, _)
batch_loop(samples, batch_size, batch, full) ==
  IF samples = <<>> THEN [full |-> full, rest |-> batch]
  ELSE IF ~is_valid_sample(Head(samples))
       THEN batch_loop(Tail(samples), batch_size, batch, full)
       ELSE LET b == Append(batch, Head(samples))
            IN IF Len(b) >= batch_size
               THEN batch_loop(Tail(samples), batch_size, <<>>, Append(full, b))
               ELSE batch_loop(Tail(samples), batch_size, b, full)

\* the batches of one send_signal call in the order they are built; the
\* batches of the loop are posted when the send_signal option is set, the
\* final batch always
signal_batches(samples, batch_size, send_opt) ==
  LET l == batch_loop(samples, batch_size, <<>>, <<>>)
      inloop == [i \in DOMAIN l.full |->
                   [samples |-> l.full[i], final |-> FALSE, posted |-> send_opt]]
  IN IF l.rest # <<>>
     THEN Append(inloop, [samples |-> l.rest, final |-> TRUE, posted |-> TRUE])
     ELSE inloop

\* num_of_samples_sent: incremented for every sample appended to a batch
num_of_samples_sent(batches) ==
  SumSeq([i \in DOMAIN batches |-> Len(batches[i].samples)])

\* the upload calls when the first failure ends the sending of the signal
Posts_abort_on_failure(batches, fails) ==
  [i \in DOMAIN batches |->
     LET reached == \A j \in 1..(i - 1) : j \notin fails
     IN [samples |-> batches[i].samples, final |-> batches[i].final,
         posted |-> batches[i].posted /\ reached,
         ok |-> batches[i].posted /\ reached /\ i \notin fails]]

\* the upload calls of one send, batch after batch: requests.post inside
\* try / except, the batches in `fails` raise and are logged
Posts(batches, fails) ==
  [i \in DOMAIN batches |->
     [samples |-> batches[i].samples, final |-> batches[i].final,
      posted |-> batches[i].posted,
      ok |-> batches[i].posted /\ i \notin fails]]

\* the absolute timestamps of the samples the store accepted
Uploaded(posts, st) ==
  UNION { {st + posts[i].samples[k].ts : k \in DOMAIN posts[i].samples} :
            i \in {j \in DOMAIN posts : posts[j].ok} }

NoCheck == [called |-> FALSE, resp |-> Response("none", <<>>), result |-> None]
Checked(resp, r) == [called |-> TRUE, resp |-> resp, result |-> r]

Call(fn, rem, chk, posts, ret, raised) ==
  [fn |-> fn, before |-> rem, check |-> chk, posts |-> posts, ret |-> ret,
   raised |-> raised]

\* a send_signal that sends the whole signal when the range check finds
\* nothing new
send_signal_ignores_none(sig, st, rem, skip, batch_size, send_opt, chk, fails) ==
  IF ~skip /\ Len(sig) = 0
  THEN Call("send_signal", rem, NoCheck, <<>>, 0, TRUE)
  ELSE
    LET batches == signal_batches(sig, batch_size, send_opt)
    IN Call("send_signal", rem, IF skip THEN NoCheck ELSE chk,
            Posts(batches, fails), num_of_samples_sent(batches), FALSE)

\* send_signal(signal, start_time, job, server, send_signal=send_opt,
\* skip_signal_range_check=skip, batch_size): one call, as a record of what it
\* did.  `chk` is the range check it makes unless skip is set, `fails` the
\* batches whose upload call raises, `rem` what the store held.
send_signal(sig, st, rem, skip, batch_size, send_opt, chk, fails) ==
  IF ~skip /\ Len(sig) = 0
  THEN Call("send_signal", rem, NoCheck, <<>>, 0, TRUE)  \* timestamps[0]: IndexError
  ELSE
    LET _signal == IF skip THEN Returned(sig) ELSE chk.result
        nothing == _signal.none \/ Len(_signal.sig) < 1
        batches == IF nothing THEN <<>>
                   ELSE signal_batches(_signal.sig, batch_size, send_opt)
    IN Call("send_signal", rem, IF skip THEN NoCheck ELSE chk,
            Posts(batches, fails),
            IF nothing THEN 0 ELSE num_of_samples_sent(batches), FALSE)

\* ------------------------------------- send_signal_using_json_lines
CeilDiv(n, d) == (n + d - 1) \div d

\* make_list_of_vm_json_line_format: one JSON line per slice of batch_size
\* values (values and timestamps travel together in `values`)
make_list_of_vm_json_line_format(values, batch_size) ==
  IF batch_size <= 0 THEN [raised |-> TRUE, lines |-> <<>>]
  ELSE IF Len(values) = 0 THEN [raised |-> FALSE, lines |-> <<>>]
  ELSE [raised |-> FALSE,
        lines |-> [k \in 1..CeilDiv(Len(values), batch_size) |->
                     SubSeq(values, (k - 1) * batch_size + 1,
                            Min(k * batch_size, Len(values)))]]

\* line.count("values"): the key "values" of the JSON line, and every
\* occurrence of the word in the labels of the metric
count_values(label_hits) == 1 + label_hits

\* send_signal_using_json_lines: one call, as a record of what it did
send_signal_using_json_lines(sig, st, rem, skip, batch_size, send_opt, chk, fails, label_hits) ==
  IF ~skip /\ Len(sig) = 0
  THEN Call("send_signal_using_json_lines", rem, NoCheck, <<>>, 0, TRUE)
  ELSE
    LET _signal == IF skip THEN Returned(sig) ELSE chk.result
        nothing == _signal.none \/ Len(_signal.sig) < 1
        values == IF nothing THEN <<>> ELSE SelectSeq(_signal.sig, is_valid_sample)
        made == make_list_of_vm_json_line_format(values, batch_size)
        lines == [i \in DOMAIN made.lines |->
                    [samples |-> made.lines[i], final |-> FALSE,
                     posted |-> send_opt]]
        posts == Posts(lines, fails)
        thechk == IF skip THEN NoCheck ELSE chk
    IN IF nothing \/ Len(values) < 1
       THEN Call("send_signal_using_json_lines", rem, thechk, <<>>, 0, FALSE)
       ELSE IF made.raised
       THEN Call("send_signal_using_json_lines", rem, thechk, <<>>, 0, TRUE)
       ELSE Call("send_signal_using_json_lines", rem, thechk, posts,
                 SumSeq([i \in DOMAIN posts |->
                           IF posts[i].posted /\ ~posts[i].ok
                           THEN 0 ELSE count_values(label_hits)]),
                 FALSE)

\* ------------------------------------------------------ specifications
QueryKinds == {"ok", "non200", "timeout", "malformed"}

\* the answers the store can give to one range query
Answers(rem, sig, st) ==
  { Response(k, IF k = "ok" THEN ExportBody(rem, sig, st) ELSE <<>>) :
      k \in QueryKinds }

\* the sets of batches whose upload can raise in one call
FailSets(n) == {F \in SUBSET (1..n) : Cardinality(F) <= MaxFails}

Options(skips, sizes) ==
  [skip : skips, batch_size : sizes, send_opt : BOOLEAN,
   label_hits : 0..MaxLabelHits]

\* --- sending one signal, and sending it again (Spec)
InitSend ==
  /\ signal \in IncreasingSignals
  /\ start_time = StartShift
  /\ opts \in Options(BOOLEAN, 1..MaxBatch)
  /\ opts.label_hits = 0
  /\ remote = {}
  /\ sends = <<>>
  /\ checked = NoCheck
  /\ NoPool /\ NoScan /\ NoRun /\ NoSide

\* one send_signal call on the recording's signal with the options of the
\* run, at most `limit` of them in a run
SendSignal(limit) ==
  /\ Len(sends) < limit
  /\ \E resp \in Answers(remote, signal, start_time) :
     \E r \in check_signal_range(signal, start_time, resp) :
       LET chk == Checked(resp, r)
           n == Len(send_signal(signal, start_time, remote, opts.skip,
                                opts.batch_size, opts.send_opt, chk, {}).posts)
       IN \E fails \in FailSets(n) :
            LET call == send_signal(signal, start_time, remote, opts.skip,
                                    opts.batch_size, opts.send_opt, chk, fails)
            IN /\ sends' = Append(sends, call)
               /\ remote' = remote \cup Uploaded(call.posts, start_time)
  /\ UNCHANGED <<sideVars, signal, start_time, opts, checked, poolVars, scanVars, runVars>>

\* one send_signal_using_json_lines call
SendSignalUsingJsonLines(limit) ==
  /\ Len(sends) < limit
  /\ \E resp \in Answers(remote, signal, start_time) :
     \E r \in check_signal_range(signal, start_time, resp) :
       LET chk == Checked(resp, r)
           n == Len(send_signal_using_json_lines(
                      signal, start_time, remote, opts.skip, opts.batch_size,
                      opts.send_opt, chk, {}, opts.label_hits).posts)
       IN \E fails \in FailSets(n) :
            LET call == send_signal_using_json_lines(
                          signal, start_time, remote, opts.skip,
                          opts.batch_size, opts.send_opt, chk, fails,
                          opts.label_hits)
            IN /\ sends' = Append(sends, call)
               /\ remote' = remote \cup Uploaded(call.posts, start_time)
  /\ UNCHANGED <<sideVars, signal, start_time, opts, checked, poolVars, scanVars, runVars>>

NextSend == SendSignal(2)

Spec == InitSend /\ [][NextSend]_vars

\* --- the batch encoders on longer signals, range check skipped (SpecEncode)
InitEncode ==
  /\ signal \in RegularSignals
  /\ start_time = StartShift
  /\ opts \in Options({TRUE}, 0..MaxEncBatch)
  /\ remote = {}
  /\ sends = <<>>
  /\ checked = NoCheck
  /\ NoPool /\ NoScan /\ NoRun /\ NoSide

NextEncode ==
  \/ SendSignal(1)
  \/ SendSignalUsingJsonLines(1)

SpecEncode == InitEncode /\ [][NextEncode]_vars

\* --- check_signal_range against any answer of the store (SpecReconcile)
\* the bodies of a non-empty answer: their first and last timestamps
Bodies(st) ==
  LET T == (st - 1)..(st + MaxT + 1)
  IN {<<a>> : a \in T} \cup {p \in T \X T : p[1] < p[2]}

AnyAnswers(st) ==
  {Response(k, <<>>) : k \in QueryKinds} \cup {Response("ok", b) : b \in Bodies(st)}

InitReconcile ==
  /\ signal \in ShortSignals
  /\ start_time = StartShift
  /\ opts \in Options({FALSE}, {1})
  /\ opts.send_opt /\ opts.label_hits = 0
  /\ remote = {}
  /\ sends = <<>>
  /\ checked = NoCheck
  /\ NoPool /\ NoScan /\ NoRun /\ NoSide

CheckSignalRange ==
  /\ ~checked.called
  /\ \E resp \in AnyAnswers(start_time) :
     \E r \in check_signal_range(signal, start_time, resp) :
       checked' = Checked(resp, r)
  /\ UNCHANGED <<sideVars, signal, start_time, remote, opts, sends, poolVars, scanVars, runVars>>

NextReconcile == CheckSignalRange

SpecReconcile == InitReconcile /\ [][NextReconcile]_vars

\* ------------------------------------------------ dispatching to workers
Names == 1..MaxNames

\* a dict[str, int] of counts: a function over the signal names, 0 for an
\* absent key (the code stores positive counts only)
EmptyDict == [k \in Names |-> 0]
DictTotal(d) == SumSeq([k \in 1..MaxNames |-> d[k]])

SeqsUpTo(S, n) == UNION {[1..k -> S] : k \in 0..n}

\* the worker of one channel: send_signal / send_signal_using_json_lines on
\* the channel `name` returns the int `ret`, or raises
ChannelUnits ==
  {u \in [name : Names, ret : 0..MaxCount, raised : BOOLEAN] :
     u.raised => u.ret = 0}
\* the worker of one batch of files: decode_and_send returns the dict `ret`
BatchUnits ==
  {u \in [name : {0}, ret : [Names -> 0..MaxCount], raised : BOOLEAN] :
     u.raised => u.ret = EmptyDict}

ChannelModes == {"send_decoded_threded", "process_files"}
BatchModes == {"send_files_to_victoriametrics"}

NoSend ==
  /\ signal = <<>> /\ start_time = StartShift /\ remote = {}
  /\ opts = [skip |-> TRUE, batch_size |-> 1, send_opt |-> TRUE, label_hits |-> 0]
  /\ sends = <<>> /\ checked = NoCheck

\* every work item is submitted to the ThreadPoolExecutor before the
\* dispatcher looks at a result
InitDispatch ==
  /\ NoSend /\ NoScan /\ NoRun /\ NoSide
  /\ mode \in ChannelModes \cup BatchModes
  /\ units \in SeqsUpTo(IF mode \in BatchModes THEN BatchUnits ELSE ChannelUnits,
                        MaxUnits)
  /\ futures = [i \in DOMAIN units |-> "running"]
  /\ signals_sample_count = EmptyDict
  /\ num_of_samples = 0
  /\ pc = "pool"
  /\ result = <<>> /\ cursor = <<0, 0>>

\* a worker thread ends: its future holds the return value or the exception
WorkerDone(i) ==
  /\ pc = "pool"
  /\ futures[i] = "running"
  /\ futures' = [futures EXCEPT ![i] = "done"]
  /\ UNCHANGED <<sideVars, sendVars, scanVars, runVars, mode, units, signals_sample_count, num_of_samples, pc,
                 result, cursor>>

\* send_decoded_threded: one turn of `for future in as_completed(...)`
MergeCompleted(i) ==
  /\ mode = "send_decoded_threded" /\ pc = "pool"
  /\ futures[i] = "done"
  /\ futures' = [futures EXCEPT ![i] = "merged"]
  /\ signals_sample_count' =
       IF ~units[i].raised /\ units[i].ret > 0
       THEN [signals_sample_count EXCEPT ![units[i].name] = units[i].ret]
       ELSE signals_sample_count
  /\ UNCHANGED <<sideVars, sendVars, scanVars, runVars, mode, units, num_of_samples, pc, result, cursor>>

\* send_files_to_victoriametrics (threaded): one turn of `for future in
\* futures`, which waits for the futures in the order of submission
MergeInOrder(i) ==
  /\ mode = "send_files_to_victoriametrics" /\ pc = "pool"
  /\ futures[i] = "done"
  /\ \A j \in 1..(i - 1) : futures[j] = "merged"
  /\ futures' = [futures EXCEPT ![i] = "merged"]
  /\ signals_sample_count' =
       IF units[i].raised
       THEN signals_sample_count
       ELSE [k \in Names |-> signals_sample_count[k] + units[i].ret[k]]
  /\ UNCHANGED <<sideVars, sendVars, scanVars, runVars, mode, units, num_of_samples, pc, result, cursor>>

\* process_files: list(executor.map(...)) hands over the results once the
\* workers have ended and re-raises a worker's exception, which the function
\* catches before it has added anything
SumResults ==
  /\ mode = "process_files" /\ pc = "pool"
  /\ \A i \in DOMAIN futures : futures[i] = "done"
  /\ futures' = [i \in DOMAIN futures |-> "merged"]
  /\ IF \E i \in DOMAIN units : units[i].raised
     THEN /\ num_of_samples' = num_of_samples
          /\ pc' = "raised"
     ELSE /\ num_of_samples' = num_of_samples
                               + SumSeq([i \in DOMAIN units |-> units[i].ret])
          /\ pc' = "returned"
  /\ UNCHANGED <<sideVars, sendVars, scanVars, runVars, mode, units, signals_sample_count, result, cursor>>

\* the dispatcher returns its dict once every future is merged
ReturnCounts ==
  /\ mode \in {"send_decoded_threded", "send_files_to_victoriametrics"}
  /\ pc = "pool"
  /\ \A i \in DOMAIN futures : futures[i] = "merged"
  /\ pc' = "returned"
  /\ UNCHANGED <<sideVars, sendVars, scanVars, runVars, mode, units, futures, signals_sample_count,
                 num_of_samples, result, cursor>>

NextDispatch ==
  \/ \E i \in DOMAIN units : WorkerDone(i)
  \/ \E i \in DOMAIN units : MergeCompleted(i)
  \/ \E i \in DOMAIN units : MergeInOrder(i)
  \/ SumResults
  \/ ReturnCounts

SpecDispatch == InitDispatch /\ [][NextDispatch]_vars

\* ------------------------------------------- sending file after file
\* a decoded recording: the channels iter_channels() yields, each with what
\* send_signal does on it
Recordings == SeqsUpTo(ChannelUnits, MaxChannels)

SequentialModes == {"decode_and_send", "send_file", "send_decoded(Path)"}

\* decode_and_send decodes file after file (concat_first=False); send_file
\* and send_decoded(Path) take one file
InitMerge ==
  /\ NoSend /\ NoScan /\ NoRun /\ NoSide
  /\ mode \in SequentialModes
  /\ units \in SeqsUpTo(Recordings, IF mode = "decode_and_send" THEN MaxUnits ELSE 1)
  /\ mode # "decode_and_send" => Len(units) = 1
  /\ futures = <<>>
  /\ signals_sample_count = EmptyDict
  /\ num_of_samples = 0
  /\ pc = "loop"
  /\ result = EmptyDict
  /\ cursor = <<1, 1>>

\* signals_sample_count[sig.name] = samples_sent, when samples_sent > 0
store_count(d, u) == IF u.ret > 0 THEN [d EXCEPT ![u.name] = u.ret] ELSE d

\* send_decoded on an MDF: one turn of `for sig in decoded.iter_channels()`.
\* An exception of send_signal leaves send_decoded and is caught by
\* decode_and_send, which goes on with the next file.
SendDecodedChannel ==
  /\ mode = "decode_and_send" /\ pc = "loop"
  /\ cursor[1] <= Len(units) /\ cursor[2] <= Len(units[cursor[1]])
  /\ LET u == units[cursor[1]][cursor[2]]
     IN IF u.raised
        THEN /\ result' = EmptyDict
             /\ cursor' = <<cursor[1] + 1, 1>>
        ELSE /\ result' = store_count(result, u)
             /\ cursor' = <<cursor[1], cursor[2] + 1>>
  /\ UNCHANGED <<sideVars, sendVars, scanVars, runVars, mode, units, futures, signals_sample_count,
                 num_of_samples, pc>>

\* decode_and_send: send_decoded has returned `result`; it is merged with
\* signals_sample_count.get(k, 0) + v
MergeResult ==
  /\ mode = "decode_and_send" /\ pc = "loop"
  /\ cursor[1] <= Len(units) /\ cursor[2] = Len(units[cursor[1]]) + 1
  /\ signals_sample_count' = [k \in Names |-> signals_sample_count[k] + result[k]]
  /\ result' = EmptyDict
  /\ cursor' = <<cursor[1] + 1, 1>>
  /\ UNCHANGED <<sideVars, sendVars, scanVars, runVars, mode, units, futures, num_of_samples, pc>>

ReturnMerged ==
  /\ mode = "decode_and_send" /\ pc = "loop"
  /\ cursor[1] = Len(units) + 1
  /\ pc' = "returned"
  /\ UNCHANGED <<sideVars, sendVars, scanVars, runVars, mode, units, futures, signals_sample_count,
                 num_of_samples, result, cursor>>

\* send_file: one turn of `for sig in mdf.iter_channels()`; an exception ends
\* the loop and the counts gathered so far are returned
SendFileChannel ==
  /\ mode \in {"send_file", "send_decoded(Path)"} /\ pc = "loop"
  /\ cursor[2] <= Len(units[1])
  /\ LET u == units[1][cursor[2]]
     IN IF u.raised
        THEN /\ result' = result
             /\ cursor' = <<1, Len(units[1]) + 1>>
        ELSE /\ result' = store_count(result, u)
             /\ cursor' = <<1, cursor[2] + 1>>
  /\ UNCHANGED <<sideVars, sendVars, scanVars, runVars, mode, units, futures, signals_sample_count,
                 num_of_samples, pc>>

\* send_file returns its dict; send_decoded(Path) drops what send_file
\* returned and returns its own, empty dict
ReturnFile ==
  /\ mode \in {"send_file", "send_decoded(Path)"} /\ pc = "loop"
  /\ cursor[2] = Len(units[1]) + 1
  /\ signals_sample_count' = IF mode = "send_file" THEN result ELSE EmptyDict
  /\ pc' = "returned"
  /\ UNCHANGED <<sideVars, sendVars, scanVars, runVars, mode, units, futures, num_of_samples, result, cursor>>

NextMerge ==
  \/ SendDecodedChannel
  \/ MergeResult
  \/ ReturnMerged
  \/ SendFileChannel
  \/ ReturnFile

SpecMerge == InitMerge /\ [][NextMerge]_vars

\* ---------------------------------------------------- the file catalog
Recs == 1..MaxRecs

\* a .mf4 file under base_dir.  Its last three path parts are the name of the
\* recording `rec` with the copy suffix " (copy)", none when copy = 0; copies
\* of one recording hold the same capture.  kind: "raw" a bus log whose header
\* reads, "decoded" a path with the word decoded in it, "corrupt" a file
\* whose header does not read
Files == [rec : Recs, copy : 0..MaxCopies, kind : {"raw", "decoded", "corrupt"}]

\* the start time in the header: captures differ in their start time
get_mdf_start_time(file) == file.rec

\* "_".join(file.parts[-3:])
parts(file) == [rec |-> file.rec, copy |-> file.copy]
\* re.sub(r" \(\d+\)", "", _fparts)
strip_copy_suffix(p) == [rec |-> p.rec, copy |-> 0]

\* the candidate's name without its suffix against the accepted names as
\* they are
is_duplicate(file, acc) ==
  \E i \in DOMAIN acc : strip_copy_suffix(parts(file)) = parts(acc[i].file)

name_is_decoded(file) == file.kind = "decoded"

\* a timestamp test that only rejects the files that do not read
timestamp_already_there_unread_only(file, acc) == file.kind = "corrupt"

timestamp_already_there(file, acc) ==
  \/ file.kind = "corrupt"
  \/ \E i \in DOMAIN acc : acc[i].start = get_mdf_start_time(file)

\* a window whose end is not part of it
in_window_end_exclusive(t, sc) ==
  /\ (sc.start # 0 => sc.start <= t)
  /\ (sc.end # 0 => t < sc.end)

\* start / end of the scan: 0 stands for None
in_window(t, sc) ==
  /\ (sc.start # 0 => sc.start <= t)
  /\ (sc.end # 0 => t <= sc.end)

\* a _process_file that tests the file against an empty list of accepted
\* files, as a worker does that runs before any result is appended
process_file_tms_stale_list(file, acc, sc) ==
  IF ~(name_is_decoded(file) \/ file.kind = "corrupt")
     /\ in_window(get_mdf_start_time(file), sc)
  THEN <<[file |-> file, start |-> get_mdf_start_time(file)]>>
  ELSE <<>>

\* _process_file of SnowLeopardTMS/send_snow_leopard_tms.py: the entry to
\* append, or <<>> for None
process_file_tms(file, acc, sc) ==
  IF ~(is_duplicate(file, acc) \/ name_is_decoded(file)
       \/ timestamp_already_there(file, acc))
     /\ in_window(get_mdf_start_time(file), sc)
  THEN <<[file |-> file, start |-> get_mdf_start_time(file)]>>
  ELSE <<>>

\* the loop body of the older send_snow_leopard_tms.py
process_file_legacy(file, acc) ==
  IF ~(is_duplicate(file, acc) \/ name_is_decoded(file)) /\ file.kind = "raw"
  THEN <<[file |-> file, start |-> get_mdf_start_time(file)]>>
  ELSE <<>>

Scanners ==
  [fn : {"SnowLeopardTMS"}, start : 0..MaxRecs, end : 0..MaxRecs]
    \cup [fn : {"legacy"}, start : {0}, end : {0}]

InitScan ==
  /\ NoSend /\ NoPool /\ NoRun /\ NoSide
  /\ pending \in {D \in SUBSET Files : Cardinality(D) <= MaxFiles}
  /\ \A f, g \in pending : parts(f) = parts(g) => f = g
  /\ \E sc \in Scanners :
       scanner = [fn |-> sc.fn, start |-> sc.start, end |-> sc.end, files |-> pending]
  /\ filtered = <<>>
  /\ listed = FALSE
  /\ scan_raised = FALSE
  /\ in_pool = <<>>

\* rglob yields the files in the order of the directory listing, which is any
\* order; the futures are made one at a time by a generator and each is
\* waited for before the next file is submitted
ProcessFile(file) ==
  /\ ~listed
  /\ file \in pending
  /\ pending' = pending \ {file}
  /\ filtered' = filtered \o
       (IF scanner.fn = "legacy" THEN process_file_legacy(file, filtered)
        ELSE process_file_tms(file, filtered, scanner))
  /\ UNCHANGED <<sideVars, sendVars, poolVars, runVars, in_pool, scanner, listed, scan_raised>>

ReturnFiltered ==
  /\ ~listed /\ scanner.fn # "none"
  /\ pending = {}
  /\ listed' = TRUE
  /\ UNCHANGED <<sideVars, sendVars, poolVars, runVars, in_pool, scanner, pending, filtered, scan_raised>>

NextScan ==
  \/ \E file \in Files : ProcessFile(file)
  \/ ReturnFiltered

SpecCatalog == InitScan /\ [][NextScan]_vars

\* get_files_in_range of D65/send_d65_data.py and B3SR/send_b3sr.py: a future
\* per file reads the header's start time; the files inside [start, end] are
\* listed.  `files` is what rglob finds under dir_path
RangeScanners == {sc \in [fn : {"D65.get_files_in_range", "B3SR.get_files_in_range"}, start : Recs, end : Recs, files : SUBSET Files] : Cardinality(sc.files) <= MaxFiles /\ \A f, g \in sc.files : parts(f) = parts(g) => f = g}

InitRange ==
  /\ NoSend /\ NoPool /\ NoRun /\ NoSide
  /\ scanner \in RangeScanners
  /\ pending = scanner.files
  /\ filtered = <<>>
  /\ listed = FALSE
  /\ scan_raised = FALSE
  /\ in_pool = <<>>

\* as_completed yields the future of `file`; future.result() re-raises what
\* get_mdf_start_time raised: D65 logs it inside the loop, B3SR has no try
\* and the exception leaves get_files_in_range
RangeResult(file) ==
  /\ ~listed /\ ~scan_raised
  /\ file \in pending
  /\ pending' = pending \ {file}
  /\ IF file.kind = "corrupt"
     THEN /\ scan_raised' = (scanner.fn = "B3SR.get_files_in_range")
          /\ filtered' = filtered
     ELSE /\ scan_raised' = scan_raised
          /\ filtered' = IF in_window(get_mdf_start_time(file), scanner)
                         THEN Append(filtered, [file |-> file, start |-> get_mdf_start_time(file)])
                         ELSE filtered
  /\ UNCHANGED <<sideVars, sendVars, poolVars, runVars, in_pool, scanner, listed>>

\* every future has been yielded: return the list
ReturnRange ==
  /\ ~listed /\ ~scan_raised
  /\ pending = {}
  /\ listed' = TRUE
  /\ UNCHANGED <<sideVars, sendVars, poolVars, runVars, in_pool, scanner, pending, filtered, scan_raised>>

NextRange ==
  \/ \E file \in Files : RangeResult(file)
  \/ ReturnRange

SpecRange == InitRange /\ [][NextRange]_vars

\* a list of futures built before the loop: every file is submitted at once
generator_yields_eagerly(pool) == TRUE

\* get_unique_filepaths with its pool: `futures` is a generator, so
\* executor.submit runs when the for loop asks for the next future, which
\* it does after future.result() of the one before and the append
generator_yields(pool) == pool = <<>>

Future(file) == [file |-> file, state |-> "queued", result |-> <<>>]

InitPooled ==
  /\ NoSend /\ NoPool /\ NoRun /\ NoSide
  /\ pending \in {D \in SUBSET {f \in Files : f.kind # "decoded"} : Cardinality(D) <= MaxFiles}
  /\ \A f, g \in pending : parts(f) = parts(g) => f = g
  /\ \E w \in 1..MaxWorkers :
       scanner = [fn |-> "SnowLeopardTMS", start |-> 0, end |-> 0, files |-> pending, max_workers |-> w]
  /\ filtered = <<>>
  /\ listed = FALSE
  /\ scan_raised = FALSE
  /\ in_pool = <<>>

\* the for loop asks the generator for the next future: executor.submit
SubmitFile(file) ==
  /\ ~listed
  /\ file \in pending
  /\ generator_yields(in_pool)
  /\ pending' = pending \ {file}
  /\ in_pool' = Append(in_pool, Future(file))
  /\ UNCHANGED <<sideVars, sendVars, poolVars, runVars, scanner, filtered, listed, scan_raised>>

\* a free thread of the pool runs _process_file on the oldest queued file:
\* it reads `filtered` as it is now
WorkerStarts(i) ==
  /\ in_pool[i].state = "queued"
  /\ \A j \in 1..(i - 1) : in_pool[j].state # "queued"
  /\ Cardinality({j \in DOMAIN in_pool : in_pool[j].state = "running"}) < scanner.max_workers
  /\ in_pool' = [in_pool EXCEPT ![i].state = "running",
                                ![i].result = process_file_tms(in_pool[i].file, filtered, scanner)]
  /\ UNCHANGED <<sideVars, sendVars, poolVars, runVars, scanner, pending, filtered, listed, scan_raised>>

\* _process_file returns: the future is done
WorkerEnds(i) ==
  /\ in_pool[i].state = "running"
  /\ in_pool' = [in_pool EXCEPT ![i].state = "done"]
  /\ UNCHANGED <<sideVars, sendVars, poolVars, runVars, scanner, pending, filtered, listed, scan_raised>>

\* result = future.result(); if result: filtered.append(result)
TakeResult ==
  /\ in_pool # <<>> /\ in_pool[1].state = "done"
  /\ filtered' = filtered \o in_pool[1].result
  /\ in_pool' = Tail(in_pool)
  /\ UNCHANGED <<sideVars, sendVars, poolVars, runVars, scanner, pending, listed, scan_raised>>

\* the generator is exhausted: return filtered
ReturnPooled ==
  /\ ~listed /\ pending = {} /\ in_pool = <<>>
  /\ listed' = TRUE
  /\ UNCHANGED <<sideVars, sendVars, poolVars, runVars, in_pool, scanner, pending, filtered, scan_raised>>

NextPooled ==
  \/ \E file \in Files : SubmitFile(file)
  \/ \E i \in DOMAIN in_pool : WorkerStarts(i)
  \/ \E i \in DOMAIN in_pool : WorkerEnds(i)
  \/ TakeResult
  \/ ReturnPooled

SpecPooled == InitPooled /\ [][NextPooled]_vars

\* the three scans that take a window, and the older one that takes none
InitScans == InitScan \/ InitRange

NextScans ==
  \/ scanner.fn \in {"SnowLeopardTMS", "legacy"} /\ NextScan
  \/ scanner.fn \in {"D65.get_files_in_range", "B3SR.get_files_in_range"} /\ NextRange

SpecScans == InitScans /\ [][NextScans]_vars

\* ------------------------------------------------- the pipeline drivers
Drivers == {"D65", "B3SR"}

\* what requests.get(server + vmapi_query, ...) does: a response with a
\* status code, or an exception (timeout, connection error)
Statuses == {200, 204, 404, 503}
ProbeAnswers ==
  [kind : {"status"}, code : Statuses]
    \cup [kind : {"timeout", "exception"}, code : {0}]

is_victoriametrics_online_any_status(resp) == resp.kind = "status"

is_victoriametrics_online(resp) ==
  IF resp.kind # "status" THEN FALSE   \* except Exception: return False
  ELSE IF resp.code # 200 THEN FALSE
  ELSE resp.code = 200

InitRun ==
  /\ NoSend /\ NoPool /\ NoScan /\ NoSide
  /\ driver \in Drivers
  /\ run_pc = "catalog"
  /\ probe = [kind |-> "none", code |-> 0]
  /\ online = "unset"
  /\ files_left = 0
  /\ decoded = FALSE
  /\ calls = [decode |-> 0, upload |-> 0]
  /\ exit_status = -1

\* the catalog step: D65 returns when it finds no file, B3SR goes on
ListFiles ==
  /\ run_pc = "catalog"
  /\ \E n \in 0..MaxCatalog :
       /\ files_left' = n
       /\ IF driver = "D65" /\ n = 0
          THEN run_pc' = "returned" /\ exit_status' = 0
          ELSE run_pc' = "check" /\ exit_status' = exit_status
  /\ UNCHANGED <<sideVars, sendVars, poolVars, scanVars, driver, probe, online, decoded,
                 calls>>

\* if not is_victoriametrics_online(server): exit(1)
CheckOnline ==
  /\ run_pc = "check"
  /\ \E resp \in ProbeAnswers :
       /\ probe' = resp
       /\ IF is_victoriametrics_online(resp)
          THEN online' = "True" /\ run_pc' = "send" /\ exit_status' = exit_status
          ELSE online' = "False" /\ run_pc' = "exited" /\ exit_status' = 1
  /\ UNCHANGED <<sideVars, sendVars, poolVars, scanVars, driver, files_left, decoded, calls>>

\* send_files_to_victoriametrics: mdf.extract_bus_logging on the next file
\* (or stack); a file that does not decode or has no channels is passed over
DecodeFile ==
  /\ run_pc = "send" /\ files_left > 0 /\ ~decoded
  /\ calls' = [calls EXCEPT !.decode = @ + 1]
  /\ \E good \in BOOLEAN :
       IF good THEN decoded' = TRUE /\ files_left' = files_left
       ELSE decoded' = FALSE /\ files_left' = files_left - 1
  /\ UNCHANGED <<sideVars, sendVars, poolVars, scanVars, driver, run_pc, probe, online,
                 exit_status>>

\* send_files_to_victoriametrics: send_decoded uploads the decoded signals
SendDecoded ==
  /\ run_pc = "send" /\ decoded
  /\ calls' = [calls EXCEPT !.upload = @ + 1]
  /\ decoded' = FALSE
  /\ files_left' = files_left - 1
  /\ UNCHANGED <<sideVars, sendVars, poolVars, scanVars, driver, run_pc, probe, online,
                 exit_status>>

\* every file is sent: the totals are logged and the driver returns
ReturnTotals ==
  /\ run_pc = "send" /\ files_left = 0
  /\ run_pc' = "returned"
  /\ exit_status' = 0
  /\ UNCHANGED <<sideVars, sendVars, poolVars, scanVars, driver, probe, online,
                 files_left, decoded, calls>>

NextRun ==
  \/ ListFiles
  \/ CheckOnline
  \/ DecodeFile
  \/ SendDecoded
  \/ ReturnTotals

SpecDriver == InitRun /\ [][NextRun]_vars

\* ------------------------------------------------------------ downloads
\* s3_helper.download_files_from_s3.  A key is a sequence of characters.
KeyNames == {<<"a", "/", "b">>, <<"a", "_", "b">>, <<"c">>}

\* processed_path: download_path / key.replace("/", "_")
processed_path(key) == [i \in DOMAIN key |-> IF key[i] = "/" THEN "_" ELSE key[i]]

LocalPaths == {processed_path(k) : k \in KeyNames}

\* a submitted download_with_retry(key): the attempt its loop is at, what it
\* has done so far ("ok" / "err": an attempt that returned / raised,
\* "sleep": time.sleep(1)), and what it returned
Submitted(key) == [key |-> key, attempt |-> 1, events |-> <<>>, state |-> "running", ret |-> FALSE, collected |-> FALSE, started |-> FALSE]

\* the work items a thread of the pool is running
in_flight(fs) == {i \in DOMAIN fs : fs[i].started /\ fs[i].state = "running"}

\* ThreadPoolExecutor(max_workers): a thread that is free takes the oldest
\* item of the work queue.  shutdown(wait=False) leaves the queue as it is
\* (cancel_futures is False): the threads go on taking items from it
takes_from_queue(fs, i, max_workers) ==
  /\ ~fs[i].started
  /\ \A j \in 1..(i - 1) : fs[j].started
  /\ Cardinality(in_flight(fs)) < max_workers

\* a retry loop that pauses after every failed attempt, the last one too
retry_iteration_sleep_always(f, max_retries, ok) ==
  IF ok THEN [f EXCEPT !.events = @ \o <<"ok">>, !.state = "done", !.ret = TRUE]
  ELSE [f EXCEPT !.events = @ \o <<"err", "sleep">>,
                 !.attempt = @ + 1,
                 !.state = IF f.attempt + 1 \in 1..(max_retries + 1) THEN "running" ELSE "done",
                 !.ret = FALSE]

\* one iteration of `for attempt in range(1, max_retries + 2)`: the download
\* returns (return True) or raises (ClientError or any Exception: logged),
\* then the loop pauses if attempt <= max_retries; past the last attempt the
\* function returns False
retry_iteration(f, max_retries, ok) ==
  IF ok THEN [f EXCEPT !.events = @ \o <<"ok">>, !.state = "done", !.ret = TRUE]
  ELSE [f EXCEPT !.events = @ \o (IF f.attempt <= max_retries THEN <<"err", "sleep">> ELSE <<"err">>),
                 !.attempt = @ + 1,
                 !.state = IF f.attempt + 1 \in 1..(max_retries + 1) THEN "running" ELSE "done",
                 !.ret = FALSE]

InitDownload ==
  /\ NoSend /\ NoPool /\ NoScan /\ NoRun /\ NoGroup /\ NoUnique /\ NoSkip /\ NoStack /\ NoRemote /\ NoMetric /\ NoMonth /\ NoManager
  /\ \E ks \in SeqsUpTo(KeyNames, MaxKeys), r \in 0..MaxRetries, b \in BOOLEAN, ex \in SUBSET LocalPaths, w \in 1..MaxWorkers :
       /\ download = [keys |-> ks, max_retries |-> r, bucket_valid |-> b, existed |-> ex, max_workers |-> w]
       /\ local_files = ex
  /\ next_key = 1
  /\ downloads = <<>>
  /\ count = 0
  /\ dl_pc = "start"

\* bucket_name is validated first: an invalid name is logged and count (0)
\* is returned
CheckBucket ==
  /\ dl_pc = "start"
  /\ dl_pc' = IF download.bucket_valid THEN "submitting" ELSE "returned"
  /\ UNCHANGED <<sendVars, poolVars, scanVars, runVars, managerVars, monthVars, metricVars, remoteVars, stackVars, skipVars, groupVars, uniqueVars, download, local_files, next_key, downloads, count>>

\* the comprehension that builds future_to_key takes the next key: it is
\* submitted if not processed_path(key).exists()
SubmitKey ==
  /\ dl_pc = "submitting" /\ next_key <= Len(download.keys)
  /\ LET key == download.keys[next_key]
     IN downloads' = IF processed_path(key) \in local_files THEN downloads
                     ELSE Append(downloads, Submitted(key))
  /\ next_key' = next_key + 1
  /\ UNCHANGED <<sendVars, poolVars, scanVars, runVars, managerVars, monthVars, metricVars, remoteVars, stackVars, skipVars, groupVars, uniqueVars, download, local_files, count, dl_pc>>

\* every key has been looked at: the as_completed loop starts
StartCollecting ==
  /\ dl_pc = "submitting" /\ next_key > Len(download.keys)
  /\ dl_pc' = "collecting"
  /\ UNCHANGED <<sendVars, poolVars, scanVars, runVars, managerVars, monthVars, metricVars, remoteVars, stackVars, skipVars, groupVars, uniqueVars, download, local_files, next_key, downloads, count>>

\* a pool thread runs one iteration of the loop of download_with_retry;
\* s3c.download_file leaves the file at local_path when it returns
Attempt(i) ==
  /\ dl_pc \in {"submitting", "collecting", "interrupted"}
  /\ downloads[i].state = "running"
  /\ downloads[i].started \/ takes_from_queue(downloads, i, download.max_workers)
  /\ downloads[i].attempt \in 1..(download.max_retries + 1)
  /\ \E ok \in BOOLEAN :
       /\ downloads' = [downloads EXCEPT ![i] = retry_iteration([@ EXCEPT !.started = TRUE], download.max_retries, ok)]
       /\ local_files' = IF ok THEN local_files \cup {processed_path(downloads[i].key)}
                         ELSE local_files
  /\ UNCHANGED <<sendVars, poolVars, scanVars, runVars, managerVars, monthVars, metricVars, remoteVars, stackVars, skipVars, groupVars, uniqueVars, download, next_key, count, dl_pc>>

\* as_completed yields a finished future: count += 1 if its result is True
Collect(i) ==
  /\ dl_pc = "collecting"
  /\ downloads[i].state = "done" /\ ~downloads[i].collected
  /\ count' = IF downloads[i].ret THEN count + 1 ELSE count
  /\ downloads' = [downloads EXCEPT ![i].collected = TRUE]
  /\ UNCHANGED <<sendVars, poolVars, scanVars, runVars, managerVars, monthVars, metricVars, remoteVars, stackVars, skipVars, groupVars, uniqueVars, download, local_files, next_key, dl_pc>>

\* every future has been yielded: return count
ReturnCount ==
  /\ dl_pc = "collecting"
  /\ \A i \in DOMAIN downloads : downloads[i].collected
  /\ dl_pc' = "returned"
  /\ UNCHANGED <<sendVars, poolVars, scanVars, runVars, managerVars, monthVars, metricVars, remoteVars, stackVars, skipVars, groupVars, uniqueVars, download, local_files, next_key, downloads, count>>

\* KeyboardInterrupt reaches the main thread inside the try block: the
\* handler logs, calls executor.shutdown(wait=False) and raises again
Interrupt ==
  /\ dl_pc \in {"submitting", "collecting"}
  /\ dl_pc' = "interrupted"
  /\ UNCHANGED <<sendVars, poolVars, scanVars, runVars, managerVars, monthVars, metricVars, remoteVars, stackVars, skipVars, groupVars, uniqueVars, download, local_files, next_key, downloads, count>>

\* the with block is left on the exception: its exit waits for the pool
\* (shutdown(wait=True)), then KeyboardInterrupt goes on to the caller
Reraise ==
  /\ dl_pc = "interrupted"
  /\ \A i \in DOMAIN downloads : downloads[i].state = "done"
  /\ dl_pc' = "raised"
  /\ UNCHANGED <<sendVars, poolVars, scanVars, runVars, managerVars, monthVars, metricVars, remoteVars, stackVars, skipVars, groupVars, uniqueVars, download, local_files, next_key, downloads, count>>

NextDownload ==
  \/ CheckBucket
  \/ SubmitKey
  \/ StartCollecting
  \/ \E i \in DOMAIN downloads : Attempt(i)
  \/ \E i \in DOMAIN downloads : Collect(i)
  \/ ReturnCount
  \/ Interrupt
  \/ Reraise

SpecDownload == InitDownload /\ [][NextDownload]_vars

\* ------------------------------------------------------- groups of files
\* decode_and_send (sending.py) and process_batch of the D65 and B3SR
\* drivers: a group of files is concatenated / stacked, decoded and sent.
\* A file of the group is the number of samples sending it uploads.
GroupFns == {"decode_and_send", "D65.process_batch", "B3SR.process_batch"}

Groups == {g \in [fn : GroupFns, concat_first : BOOLEAN, files : SeqsUpTo(1..MaxCount, MaxGroup)] : Len(g.files) >= 1 /\ (g.fn # "decode_and_send" => g.concat_first)}

\* decode_and_send: if concat_first and len(files) > 1; process_batch always
\* stacks
joins_first(g) == IF g.fn = "decode_and_send" THEN g.concat_first /\ Len(g.files) > 1 ELSE TRUE

InitGroup ==
  /\ NoSend /\ NoPool /\ NoScan /\ NoRun /\ NoLoad /\ NoUnique /\ NoSkip /\ NoStack /\ NoRemote /\ NoMetric /\ NoMonth /\ NoManager
  /\ group \in Groups
  /\ joined = "none"
  /\ file_at = 1
  /\ file_sent = [i \in DOMAIN group.files |-> FALSE]
  /\ group_count = 0
  /\ grp_pc = IF joins_first(group) THEN "join" ELSE "each"

\* mdf = MDF().concatenate(files) / MDF().stack(files): it returns, or it
\* raises and the outer except logs the error
Concatenate ==
  /\ grp_pc = "join"
  /\ \E ok \in BOOLEAN :
       /\ joined' = IF ok THEN "ok" ELSE "raised"
       /\ grp_pc' = IF ok THEN "decode" ELSE "returned"
  /\ UNCHANGED <<sendVars, poolVars, scanVars, runVars, managerVars, monthVars, metricVars, remoteVars, stackVars, skipVars, loadVars, uniqueVars, group, file_at, file_sent, group_count>>

\* the joined MDF is decoded and sent with send_decoded, the counts are
\* added; an exception here is logged by the inner except
DecodeJoined ==
  /\ grp_pc = "decode"
  /\ \E ok \in BOOLEAN :
       IF ok THEN /\ file_sent' = [i \in DOMAIN group.files |-> TRUE]
                  /\ group_count' = group_count + SumSeq(group.files)
       ELSE UNCHANGED <<file_sent, group_count>>
  /\ grp_pc' = "returned"
  /\ UNCHANGED <<sendVars, poolVars, scanVars, runVars, managerVars, monthVars, metricVars, remoteVars, stackVars, skipVars, loadVars, uniqueVars, group, joined, file_at>>

\* decode_and_send without concatenation: for file in files: decode, send,
\* add the counts; except Exception: continue
DecodeEach ==
  /\ grp_pc = "each" /\ file_at <= Len(group.files)
  /\ \E ok \in BOOLEAN :
       IF ok THEN /\ file_sent' = [file_sent EXCEPT ![file_at] = TRUE]
                  /\ group_count' = group_count + group.files[file_at]
       ELSE UNCHANGED <<file_sent, group_count>>
  /\ file_at' = file_at + 1
  /\ UNCHANGED <<sendVars, poolVars, scanVars, runVars, managerVars, monthVars, metricVars, remoteVars, stackVars, skipVars, loadVars, uniqueVars, group, joined, grp_pc>>

\* the loop is over: return signals_sample_count
ReturnEach ==
  /\ grp_pc = "each" /\ file_at > Len(group.files)
  /\ grp_pc' = "returned"
  /\ UNCHANGED <<sendVars, poolVars, scanVars, runVars, managerVars, monthVars, metricVars, remoteVars, stackVars, skipVars, loadVars, uniqueVars, group, joined, file_at, file_sent, group_count>>

NextGroup ==
  \/ Concatenate
  \/ DecodeJoined
  \/ DecodeEach
  \/ ReturnEach

SpecGroup == InitGroup /\ [][NextGroup]_vars

\* --------------------------------------------- the D65 cross-root listing
\* get_all_unique_d65_files.  A file name is a sequence of tokens; the
\* capture `rec` was written by the logger as MAC/<dir>/<file>.MF4
Tok(kind, n) == [kind |-> kind, n |-> n]
Underscore == Tok("_", 0)
Dash == Tok("-", 0)
Ext == Tok(".MF4", 0)

\* a file under the CANEdge folder (copied from the SD card): dchv when its
\* path has "DCHV" or "logCan" in it
EdgeFiles == [root : {"CANEdge"}, rec : Recs, dchv : BOOLEAN, hash : {0}]
\* a file under the CANCloud folder: the download names it
\* MAC_<dir>_<file>-<hash>.MF4
CloudFiles == [root : {"CANCloud"}, rec : Recs, dchv : {FALSE}, hash : 1..MaxHashes]

\* p.parts[-3:] of a CANEdge file
last_parts(f) == << <<Tok("mac", 0)>>, <<Tok("dir", f.rec)>>, <<Tok("file", f.rec), Ext>> >>
\* p.name of a CANCloud file
cloud_name(f) == <<Tok("mac", 0), Underscore, Tok("dir", f.rec), Underscore, Tok("file", f.rec), Dash, Tok("hash", f.hash), Ext>>

\* "_".join(parts)
RECURSIVE join_underscore(_)
join_underscore(ps) == IF Len(ps) = 0 THEN <<>> ELSE IF Len(ps) = 1 THEN ps[1] ELSE ps[1] \o <<Underscore>> \o join_underscore(Tail(ps))

\* name.split("-")[0]
RECURSIVE before_dash(_)
before_dash(name) == IF name = <<>> \/ Head(name) = Dash THEN <<>> ELSE <<Head(name)>> \o before_dash(Tail(name))

\* a normalization that leaves the downloaded name as it is
normalize_cancloud_filename_keep_hash(f) == cloud_name(f)

\* p.name.split("-")[0] + p.suffix
normalize_cancloud_filename(f) == before_dash(cloud_name(f)) \o <<cloud_name(f)[Len(cloud_name(f))]>>

normalize_canedge_filename(f) == join_underscore(last_parts(f))

\* get_files_in_range on a folder whose files all read: those whose start
\* time is inside [start, end]
files_in_range(D, r) == {f \in D : r.start <= get_mdf_start_time(f) /\ get_mdf_start_time(f) <= r.end}

InitUnique ==
  /\ NoSend /\ NoPool /\ NoScan /\ NoRun /\ NoLoad /\ NoGroup /\ NoSkip /\ NoStack /\ NoRemote /\ NoMetric /\ NoMonth /\ NoManager
  /\ \E e \in SUBSET EdgeFiles, c \in SUBSET CloudFiles, st \in Recs, en \in Recs, ig \in BOOLEAN, so \in BOOLEAN, rv \in BOOLEAN :
       /\ Cardinality(e) <= MaxFiles /\ Cardinality(c) <= MaxFiles
       /\ roots = [edge |-> e, cloud |-> c, start |-> st, end |-> en, ignore_dchv_files |-> ig, sorted |-> so, reverse_sort |-> rv]
  /\ canedge_files = {}
  /\ cancloud_files = {}
  /\ full_list = {}
  /\ full_order = <<>>
  /\ uq_pc = "canedge"

\* get_all_d65_canedge_files: the files in range, without those with DCHV or
\* logCan in their path when ignore_dchv_files is set
ReadCanEdge ==
  /\ uq_pc = "canedge"
  /\ canedge_files' = {f \in files_in_range(roots.edge, roots) : roots.ignore_dchv_files => ~f.dchv}
  /\ uq_pc' = "cancloud"
  /\ UNCHANGED <<sendVars, poolVars, scanVars, runVars, managerVars, monthVars, metricVars, remoteVars, stackVars, skipVars, loadVars, groupVars, roots, cancloud_files, full_list, full_order>>

\* cancloud_files = get_files_in_range(cancloud_folder, start, end)
ReadCanCloud ==
  /\ uq_pc = "cancloud"
  /\ cancloud_files' = files_in_range(roots.cloud, roots)
  /\ uq_pc' = "merge"
  /\ UNCHANGED <<sendVars, poolVars, scanVars, runVars, managerVars, monthVars, metricVars, remoteVars, stackVars, skipVars, loadVars, groupVars, roots, canedge_files, full_list, full_order>>

\* the lists that hold every element of S once
RECURSIVE ListsOf(_)
ListsOf(S) == IF S = {} THEN {<<>>} ELSE UNION {{<<x>> \o q : q \in ListsOf(S \ {x})} : x \in S}

\* list.sort(key=lambda x: x[2], reverse=reverse) has given q: the start
\* times do not fall (do not rise when reverse) along q
sorted_by_start(q, reverse) ==
  \A i, j \in DOMAIN q :
    i < j => IF reverse THEN get_mdf_start_time(q[i]) >= get_mdf_start_time(q[j])
             ELSE get_mdf_start_time(q[i]) <= get_mdf_start_time(q[j])

\* the lists the function can return: cancloud_files in the order its
\* futures completed, then unique_canedge_files sorted with
\* reverse=reverse_sort; when `sorted` the whole list is sorted once more,
\* without reverse (the sort is stable: of two files with one start time
\* the CANCloud one stays first)
returned_lists(cloud, edge, is_sorted, reverse_sort) ==
  LET concatenated == {c \o e : c \in ListsOf(cloud), e \in {q \in ListsOf(edge) : sorted_by_start(q, reverse_sort)}}
  IN IF is_sorted
     THEN {q \in ListsOf(cloud \cup edge) :
             /\ sorted_by_start(q, FALSE)
             /\ \A i, j \in DOMAIN q :
                  (i < j /\ get_mdf_start_time(q[i]) = get_mdf_start_time(q[j])) =>
                    ~(q[i].root = "CANEdge" /\ q[j].root = "CANCloud")}
     ELSE concatenated

\* unique_canedge_files and full_list = cancloud_files + unique_canedge_files
\* (the lists hold no path twice)
MergeUnique ==
  /\ uq_pc = "merge"
  /\ LET normalized_cancloud_files == {normalize_cancloud_filename(f) : f \in cancloud_files}
         unique_canedge_files == {f \in canedge_files : normalize_canedge_filename(f) \notin normalized_cancloud_files}
     IN /\ full_list' = cancloud_files \cup unique_canedge_files
        /\ full_order' \in returned_lists(cancloud_files, unique_canedge_files, roots.sorted, roots.reverse_sort)
  /\ uq_pc' = "returned"
  /\ UNCHANGED <<sendVars, poolVars, scanVars, runVars, managerVars, monthVars, metricVars, remoteVars, stackVars, skipVars, loadVars, groupVars, roots, canedge_files, cancloud_files>>

NextUnique ==
  \/ ReadCanEdge
  \/ ReadCanCloud
  \/ MergeUnique

SpecUnique == InitUnique /\ [][NextUnique]_vars

\* ------------------------------------------------ the skip predicate
\* send_file, send_decoded (given an MDF or a Path) and send_decoded_threded
\* with skip_signal_fn: None (skip_given = FALSE) or a predicate on the
\* signal's name, true on skip_names.  A channel is a name and the count
\* send_signal returns on it.
SkipPaths == {"send_file", "send_decoded(MDF)", "send_decoded(Path)", "send_decoded_threded"}

SkipCalls == {d \in [path : SkipPaths, channels : SeqsUpTo([name : Names, ret : 1..MaxCount], MaxChannels), skip_given : BOOLEAN, skip_names : SUBSET Names] : ~d.skip_given => d.skip_names = {}}

\* the predicate that reaches the loop over the channels: send_decoded given
\* a Path calls send_file(filename, job, server) without it
passed_skip_fn(d) == IF d.path = "send_decoded(Path)" THEN [given |-> FALSE, names |-> {}] ELSE [given |-> d.skip_given, names |-> d.skip_names]

\* if skip_signal_fn is not None and skip_signal_fn(sig.name): continue
skips(fn, name) == fn.given /\ name \in fn.names

InitSkip ==
  /\ NoSend /\ NoPool /\ NoScan /\ NoRun /\ NoLoad /\ NoGroup /\ NoUnique /\ NoStack /\ NoRemote /\ NoMetric /\ NoMonth /\ NoManager
  /\ dispatch \in SkipCalls
  /\ chan_at = 1
  /\ sent_signals = <<>>
  /\ sent_counts = EmptyDict
  /\ sk_pc = "loop"

\* one turn of `for sig in ....iter_channels()`: the channel is passed over
\* or send_signal is called on it and its count is stored when > 0
SendOrSkip ==
  /\ sk_pc = "loop" /\ chan_at <= Len(dispatch.channels)
  /\ LET sig == dispatch.channels[chan_at]
     IN IF skips(passed_skip_fn(dispatch), sig.name)
        THEN UNCHANGED <<sent_signals, sent_counts>>
        ELSE /\ sent_signals' = Append(sent_signals, sig.name)
             /\ sent_counts' = [sent_counts EXCEPT ![sig.name] = sig.ret]
  /\ chan_at' = chan_at + 1
  /\ UNCHANGED <<sendVars, poolVars, scanVars, runVars, managerVars, monthVars, metricVars, remoteVars, stackVars, loadVars, groupVars, uniqueVars, dispatch, sk_pc>>

\* return signals_sample_count; send_decoded given a Path returns its own,
\* empty dict
ReturnSent ==
  /\ sk_pc = "loop" /\ chan_at > Len(dispatch.channels)
  /\ sent_counts' = IF dispatch.path = "send_decoded(Path)" THEN EmptyDict ELSE sent_counts
  /\ sk_pc' = "returned"
  /\ UNCHANGED <<sendVars, poolVars, scanVars, runVars, managerVars, monthVars, metricVars, remoteVars, stackVars, loadVars, groupVars, uniqueVars, dispatch, chan_at, sent_signals>>

NextSkip ==
  \/ SendOrSkip
  \/ ReturnSent

SpecSkip == InitSkip /\ [][NextSkip]_vars

\* ------------------------------------- D65 send_files_to_victoriametrics
\* files: a list of (path, category, start time); the model keeps the
\* category of each file and names a file by its index in the list
Categories == {"Upper", "Lower", "Other"}

\* [item for item in batch_files if item[1] == k], as indices of files; a
\* stack is sorted by start time, an order the model does not keep
category_files_any(files, lo, hi, k) == lo..hi
category_files(files, lo, hi, k) == {i \in lo..hi : files[i] = k}

\* lst[i : i + n] that takes one element more
slice_end_one_more(i, n, len) == Min(i + n, len)

\* lst[i : i + n] of batch(lst, n), with indices from 1: the last index
slice_end(i, n, len) == Min(i + n - 1, len)

\* the three functions that decode stacks of files: send_files_to_victoriametrics
\* of D65 and of B3SR, process_files of SnowLeopardTMS.  The files of the
\* last two carry no category ("Other"); process_files takes no
\* skip_signal_range_check (its sends skip the check) and its batch_size is
\* taken >= 1
StackCalls ==
  [fn : {"D65"}, files : SeqsUpTo(Categories, MaxFiles), stack_size : 0..MaxStack, skip_signal_range_check : BOOLEAN]
    \cup [fn : {"B3SR"}, files : SeqsUpTo({"Other"}, MaxFiles), stack_size : 0..MaxStack, skip_signal_range_check : BOOLEAN]
    \cup [fn : {"process_files"}, files : SeqsUpTo({"Other"}, MaxFiles), stack_size : 1..MaxStack, skip_signal_range_check : {TRUE}]

\* extract_bus_logging on `fs` with the definitions `dbc`, sent under `job`
Decode(job, dbc, fs) == [job |-> job, dbc |-> dbc, files |-> fs]

InitStack ==
  /\ NoSend /\ NoPool /\ NoScan /\ NoRun /\ NoLoad /\ NoGroup /\ NoUnique /\ NoSkip /\ NoRemote /\ NoMetric /\ NoMonth /\ NoManager
  /\ stack \in StackCalls
  /\ batch_at = 1
  /\ decodes = <<>>
  /\ skip_passed = <<>>
  /\ st_pc = "loop"

\* stack_size < 1 is set to 1
stack_size_used == IF stack.stack_size < 1 THEN 1 ELSE stack.stack_size

\* stack_size == 1: one turn of `for i, (f, k, _) in enumerate(files)`; a
\* file of an unknown category is logged and passed over
DecodeSingle ==
  /\ stack.fn = "D65"
  /\ st_pc = "loop" /\ stack_size_used = 1 /\ batch_at <= Len(stack.files)
  /\ LET k == stack.files[batch_at]
     IN /\ decodes' = IF k \notin {"Upper", "Lower"} THEN decodes
                      ELSE Append(decodes, Decode(k, k, {batch_at}))
        \* send_decoded(..., skip_signal_range_check=skip_signal_range_check)
        /\ skip_passed' = IF k \notin {"Upper", "Lower"} THEN skip_passed
                          ELSE Append(skip_passed, stack.skip_signal_range_check)
  /\ batch_at' = batch_at + 1
  /\ UNCHANGED <<sendVars, poolVars, scanVars, runVars, managerVars, monthVars, metricVars, remoteVars, loadVars, groupVars, uniqueVars, skipVars, stack, st_pc>>

\* stack_size > 1: one turn of `for batch_idx, batch_files in batch(files,
\* stack_size)`: process_batch on the Upper files, then on the Lower files
DecodeStacks ==
  /\ stack.fn = "D65"
  /\ st_pc = "loop" /\ stack_size_used > 1 /\ batch_at <= Len(stack.files)
  /\ LET hi == slice_end(batch_at, stack_size_used, Len(stack.files))
         upper_files == category_files(stack.files, batch_at, hi, "Upper")
         lower_files == category_files(stack.files, batch_at, hi, "Lower")
     IN /\ decodes' = decodes
                     \o (IF upper_files # {} THEN <<Decode("Upper", "Upper", upper_files)>> ELSE <<>>)
                     \o (IF lower_files # {} THEN <<Decode("Lower", "Lower", lower_files)>> ELSE <<>>)
        \* process_batch: send_decoded(..., skip_signal_range_check=True)
        /\ skip_passed' = skip_passed
                     \o (IF upper_files # {} THEN <<TRUE>> ELSE <<>>)
                     \o (IF lower_files # {} THEN <<TRUE>> ELSE <<>>)
  /\ batch_at' = batch_at + stack_size_used
  /\ UNCHANGED <<sendVars, poolVars, scanVars, runVars, managerVars, monthVars, metricVars, remoteVars, loadVars, groupVars, uniqueVars, skipVars, stack, st_pc>>

\* B3SR send_files_to_victoriametrics and process_files: one turn of the
\* loop over the files (B3SR, stack_size == 1) or over the batches: the
\* files of the batch are stacked (concatenated) and decoded together
DecodeBatch ==
  /\ stack.fn \in {"B3SR", "process_files"}
  /\ st_pc = "loop" /\ batch_at <= Len(stack.files)
  /\ LET hi == slice_end(batch_at, stack_size_used, Len(stack.files))
         job == IF stack.fn = "B3SR" THEN "B3SR" ELSE "SnowLeopardTMS"
     IN decodes' = Append(decodes, Decode(job, job, batch_at..hi))
  /\ skip_passed' = Append(skip_passed, stack.skip_signal_range_check)
  /\ batch_at' = batch_at + stack_size_used
  /\ UNCHANGED <<sendVars, poolVars, scanVars, runVars, managerVars, monthVars, metricVars, remoteVars, loadVars, groupVars, uniqueVars, skipVars, stack, st_pc>>

\* the loop is over (or files is empty): the totals are returned
ReturnCategoryTotals ==
  /\ st_pc = "loop" /\ batch_at > Len(stack.files)
  /\ st_pc' = "returned"
  /\ UNCHANGED <<sendVars, poolVars, scanVars, runVars, managerVars, monthVars, metricVars, remoteVars, loadVars, groupVars, uniqueVars, skipVars, stack, batch_at, decodes, skip_passed>>

NextStack ==
  \/ DecodeSingle
  \/ DecodeStacks
  \/ DecodeBatch
  \/ ReturnCategoryTotals

SpecStack == InitStack /\ [][NextStack]_vars

\* ------------------------------------------------ the remote calls
\* The remote calls of a run: the reachability check of the driver, then per
\* send_signal worker the range query and the batch uploads.  A store that
\* has stopped responding accepts a request and never answers it.
\* requests.get(..., timeout=timeout) in is_victoriametrics_online,
\* requests.get(..., timeout=10) in check_signal_range; requests.post(server +
\* vmapi_import_prometheus, data=...) in send_signal has no timeout argument
has_timeout(call) == call \in {"online", "query"}

\* the request returns or raises: the store answers, or the timeout expires
call_ends(call) == responding \/ has_timeout(call)

Sender(skip, posts) == [pc |-> IF skip THEN "post" ELSE "query", left |-> posts]

InitRemote ==
  /\ NoSend /\ NoPool /\ NoScan /\ NoRun /\ NoLoad /\ NoGroup /\ NoUnique /\ NoSkip /\ NoStack /\ NoMetric /\ NoMonth /\ NoManager
  /\ responding = TRUE
  /\ remote_pc = "online"
  /\ senders \in {w \in SeqsUpTo({Sender(k, n) : k \in BOOLEAN, n \in 0..MaxPosts}, MaxSenders) : Len(w) >= 1}

\* the store stops responding, at any time
StoreStops ==
  /\ responding /\ remote_pc \in {"online", "pool"}
  /\ responding' = FALSE
  /\ UNCHANGED <<sendVars, poolVars, scanVars, runVars, managerVars, monthVars, metricVars, loadVars, groupVars, uniqueVars, skipVars, stackVars, remote_pc, senders>>

\* is_victoriametrics_online returns: True on a status 200, False on another
\* status or an exception (the timeout among them): the driver exits
OnlineReturns ==
  /\ remote_pc = "online" /\ call_ends("online")
  /\ \E ok \in BOOLEAN :
       /\ ok => responding
       /\ remote_pc' = IF ok THEN "pool" ELSE "exited"
  /\ UNCHANGED <<sendVars, poolVars, scanVars, runVars, managerVars, monthVars, metricVars, loadVars, groupVars, uniqueVars, skipVars, stackVars, responding, senders>>

\* check_signal_range of worker i returns: the query was answered or raised
QueryReturns(i) ==
  /\ remote_pc = "pool" /\ senders[i].pc = "query" /\ call_ends("query")
  /\ senders' = [senders EXCEPT ![i].pc = "post"]
  /\ UNCHANGED <<sendVars, poolVars, scanVars, runVars, managerVars, monthVars, metricVars, loadVars, groupVars, uniqueVars, skipVars, stackVars, responding, remote_pc>>

\* a requests.post of worker i returns or raises (the error is logged)
PostReturns(i) ==
  /\ remote_pc = "pool" /\ senders[i].pc = "post" /\ senders[i].left > 0
  /\ call_ends("post")
  /\ senders' = [senders EXCEPT ![i].left = @ - 1]
  /\ UNCHANGED <<sendVars, poolVars, scanVars, runVars, managerVars, monthVars, metricVars, loadVars, groupVars, uniqueVars, skipVars, stackVars, responding, remote_pc>>

\* send_signal of worker i returns num_of_samples_sent
SenderReturns(i) ==
  /\ remote_pc = "pool" /\ senders[i].pc = "post" /\ senders[i].left = 0
  /\ senders' = [senders EXCEPT ![i].pc = "returned"]
  /\ UNCHANGED <<sendVars, poolVars, scanVars, runVars, managerVars, monthVars, metricVars, loadVars, groupVars, uniqueVars, skipVars, stackVars, responding, remote_pc>>

\* every future has a result: the pool is left
PoolReturns ==
  /\ remote_pc = "pool"
  /\ \A i \in DOMAIN senders : senders[i].pc = "returned"
  /\ remote_pc' = "done"
  /\ UNCHANGED <<sendVars, poolVars, scanVars, runVars, managerVars, monthVars, metricVars, loadVars, groupVars, uniqueVars, skipVars, stackVars, responding, senders>>

\* the steps of the program's threads
RunStep ==
  \/ OnlineReturns
  \/ \E i \in DOMAIN senders : QueryReturns(i)
  \/ \E i \in DOMAIN senders : PostReturns(i)
  \/ \E i \in DOMAIN senders : SenderReturns(i)
  \/ PoolReturns

NextRemote ==
  \/ StoreStops
  \/ RunStep

\* every thread that can take a step takes one
SpecRemote == InitRemote /\ [][NextRemote]_vars /\ WF_vars(RunStep)

\* ------------------------------------------------ get_metrics_from_vm
\* utils.get_metrics_from_vm.  Dates are in ticks, TicksPerHour to the hour.
\* (end_date - start_date).days: the whole days of the difference
days(delta) == delta \div (HoursPerDay * TicksPerHour)

\* total_hours = (end_date - start_date).days * 24 + 1
total_hours(r) == days(r.end_date - r.start_date) * HoursPerDay + 1

\* query_vm(single_hour): day_start = start_date + timedelta(hours=
\* single_hour), day_end = min(day_start + timedelta(hours=1), end_date)
query_window(r, single_hour) ==
  LET day_start == r.start_date + single_hour * TicksPerHour
  IN [day_start |-> day_start, day_end |-> Min(day_start + TicksPerHour, r.end_date)]

InitMetric ==
  /\ NoSend /\ NoPool /\ NoScan /\ NoRun /\ NoLoad /\ NoGroup /\ NoUnique /\ NoSkip /\ NoStack /\ NoRemote /\ NoMonth /\ NoManager
  /\ \E s \in 0..1, d \in 0..MaxSpan : vm_range = [start_date |-> s, end_date |-> s + d]
  /\ vm_windows = <<>>
  /\ vm_pc = "submitting"

\* futures = [executor.submit(query_vm, h) for h in range(total_hours)]: the
\* next h; the answers, kept in ret under day_start, are not modelled
SubmitQuery ==
  /\ vm_pc = "submitting" /\ Len(vm_windows) < total_hours(vm_range)
  /\ vm_windows' = Append(vm_windows, query_window(vm_range, Len(vm_windows)))
  /\ UNCHANGED <<sendVars, poolVars, scanVars, runVars, managerVars, monthVars, loadVars, groupVars, uniqueVars, skipVars, stackVars, remoteVars, vm_range, vm_pc>>

\* every future has been collected: return ret
ReturnMetrics ==
  /\ vm_pc = "submitting" /\ Len(vm_windows) = total_hours(vm_range)
  /\ vm_pc' = "returned"
  /\ UNCHANGED <<sendVars, poolVars, scanVars, runVars, managerVars, monthVars, loadVars, groupVars, uniqueVars, skipVars, stackVars, remoteVars, vm_range, vm_windows>>

NextMetric ==
  \/ SubmitQuery
  \/ ReturnMetrics

SpecMetric == InitMetric /\ [][NextMetric]_vars

\* ------------------------------------- the SnowLeopardTMS driver's loop
\* The __main__ block of send_snow_leopard_tms.py.  Time is counted in
\* months from the first start_time, datetime(2024, 6, 1): a recording is
\* the month its start time is in, -1 for a start time before that date.
\* MaxMonth is the last month of datetime.max: adding a month to it raises.
RecordingMonths == (0 - 1)..MaxMonth

\* start_time <= ts < start_time + relativedelta(months=1)
in_month(ts, start) == start <= ts /\ ts < start + 1

InitMonths ==
  /\ NoSend /\ NoPool /\ NoScan /\ NoRun /\ NoLoad /\ NoGroup /\ NoUnique /\ NoSkip /\ NoStack /\ NoRemote /\ NoMetric /\ NoManager
  /\ tms_start_time = 0
  \* filtered.sort(key=lambda x: x[1])
  /\ tms_filtered \in {q \in SeqsUpTo(RecordingMonths, MaxCatalog) : \A i, j \in DOMAIN q : i < j => q[i] <= q[j]}
  /\ tms_chunks = <<>>
  /\ tms_pc = "loop"

\* one turn of `while len(filtered) > 0`: the recordings of the month are
\* given to process_files and removed, then start_time += one month, which
\* raises past the last month a datetime holds
MonthTurn ==
  /\ tms_pc = "loop" /\ Len(tms_filtered) > 0
  /\ LET processed == SelectSeq(tms_filtered, LAMBDA ts : in_month(ts, tms_start_time))
     IN /\ tms_chunks' = IF Len(processed) > 0 THEN Append(tms_chunks, processed) ELSE tms_chunks
        /\ tms_filtered' = SelectSeq(tms_filtered, LAMBDA ts : ~in_month(ts, tms_start_time))
  /\ IF tms_start_time < MaxMonth
     THEN tms_start_time' = tms_start_time + 1 /\ tms_pc' = "loop"
     ELSE tms_start_time' = tms_start_time /\ tms_pc' = "raised"
  /\ UNCHANGED <<sendVars, poolVars, scanVars, runVars, managerVars, loadVars, groupVars, uniqueVars, skipVars, stackVars, remoteVars, metricVars>>

\* filtered is empty: the loop is left
LeaveLoop ==
  /\ tms_pc = "loop" /\ Len(tms_filtered) = 0
  /\ tms_pc' = "done"
  /\ UNCHANGED <<sendVars, poolVars, scanVars, runVars, managerVars, loadVars, groupVars, uniqueVars, skipVars, stackVars, remoteVars, metricVars, tms_start_time, tms_filtered, tms_chunks>>

NextMonths ==
  \/ MonthTurn
  \/ LeaveLoop

\* the driver is one thread that runs on
SpecMonths == InitMonths /\ [][NextMonths]_vars /\ WF_vars(NextMonths)

\* ------------------------------------------------ the MetricsManager
\* metrics_manager.MetricsManager.  self.mutex is a QMutex(), which is not
\* recursive: lock() blocks while the mutex is held, also when the thread
\* that calls it is the holder.  A calling thread is at "idle" or at a
\* point of a method; `ret` is where it goes on after _send_batch.
Callers == 1..MaxCallers

At(point, ret) == [pc |-> point, ret |-> ret]

\* QMutex.lock() returns for thread t
lock_free(holder, t) == holder = 0

InitManager ==
  /\ NoSend /\ NoPool /\ NoScan /\ NoRun /\ NoLoad /\ NoGroup /\ NoUnique /\ NoSkip /\ NoStack /\ NoRemote /\ NoMetric /\ NoMonth
  /\ mm_calls = [t \in Callers |-> At("idle", "idle")]
  /\ mm_mutex = 0
  /\ mm_buffer = 0
  /\ \E n \in 1..MaxBuffer : mm_manager = [batch_limit |-> n, running |-> TRUE]

\* a thread calls add_metric, check_and_send or stop
CallMethod(t) ==
  /\ mm_calls[t].pc = "idle"
  /\ \E method \in {"add_metric", "check_and_send", "stop"} :
       mm_calls' = [mm_calls EXCEPT ![t] = At(method, "idle")]
  /\ UNCHANGED <<sendVars, poolVars, scanVars, runVars, loadVars, groupVars, uniqueVars, skipVars, stackVars, remoteVars, metricVars, monthVars, mm_mutex, mm_buffer, mm_manager>>

\* add_metric: lock, append, _send_batch when the buffer has reached
\* batch_limit (with the mutex held), else unlock
AddMetric(t) ==
  /\ mm_calls[t].pc = "add_metric" /\ lock_free(mm_mutex, t)
  /\ mm_buffer < MaxBuffer
  /\ mm_buffer' = mm_buffer + 1
  /\ IF mm_buffer + 1 >= mm_manager.batch_limit
     THEN /\ mm_mutex' = t
          /\ mm_calls' = [mm_calls EXCEPT ![t] = At("_send_batch", "unlock")]
     ELSE /\ mm_mutex' = 0
          /\ mm_calls' = [mm_calls EXCEPT ![t] = At("idle", "idle")]
  /\ UNCHANGED <<sendVars, poolVars, scanVars, runVars, loadVars, groupVars, uniqueVars, skipVars, stackVars, remoteVars, metricVars, monthVars, mm_manager>>

\* _send_batch: lock, take the buffer, unlock, post the batch; then the
\* caller goes on
SendBatch(t) ==
  /\ mm_calls[t].pc = "_send_batch" /\ lock_free(mm_mutex, t)
  /\ mm_buffer' = 0
  /\ mm_mutex' = 0
  /\ mm_calls' = [mm_calls EXCEPT ![t] = At(mm_calls[t].ret, "idle")]
  /\ UNCHANGED <<sendVars, poolVars, scanVars, runVars, loadVars, groupVars, uniqueVars, skipVars, stackVars, remoteVars, metricVars, monthVars, mm_manager>>

\* the self.mutex.unlock() that ends add_metric and stop
Unlock(t) ==
  /\ mm_calls[t].pc = "unlock"
  /\ mm_mutex' = 0
  /\ mm_calls' = [mm_calls EXCEPT ![t] = At("idle", "idle")]
  /\ UNCHANGED <<sendVars, poolVars, scanVars, runVars, loadVars, groupVars, uniqueVars, skipVars, stackVars, remoteVars, metricVars, monthVars, mm_buffer, mm_manager>>

\* check_and_send: lock, has_data = bool(self.buffer), unlock; _send_batch
\* if has_data
CheckAndSend(t) ==
  /\ mm_calls[t].pc = "check_and_send" /\ lock_free(mm_mutex, t)
  /\ mm_calls' = [mm_calls EXCEPT ![t] = IF mm_buffer > 0 THEN At("_send_batch", "idle") ELSE At("idle", "idle")]
  /\ UNCHANGED <<sendVars, poolVars, scanVars, runVars, loadVars, groupVars, uniqueVars, skipVars, stackVars, remoteVars, metricVars, monthVars, mm_mutex, mm_buffer, mm_manager>>

\* stop: self.running = False; self.wait() returns when run() has left its
\* loop
StopWait(t) ==
  /\ mm_calls[t].pc = "stop"
  /\ mm_manager' = [mm_manager EXCEPT !.running = FALSE]
  /\ mm_calls' = [mm_calls EXCEPT ![t] = At("stop_lock", "idle")]
  /\ UNCHANGED <<sendVars, poolVars, scanVars, runVars, loadVars, groupVars, uniqueVars, skipVars, stackVars, remoteVars, metricVars, monthVars, mm_mutex, mm_buffer>>

\* stop: lock; _send_batch if the buffer is not empty (with the mutex
\* held), then unlock
StopFlush(t) ==
  /\ mm_calls[t].pc = "stop_lock" /\ lock_free(mm_mutex, t)
  /\ mm_mutex' = t
  /\ mm_calls' = [mm_calls EXCEPT ![t] = IF mm_buffer > 0 THEN At("_send_batch", "unlock") ELSE At("unlock", "idle")]
  /\ UNCHANGED <<sendVars, poolVars, scanVars, runVars, loadVars, groupVars, uniqueVars, skipVars, stackVars, remoteVars, metricVars, monthVars, mm_buffer, mm_manager>>

\* thread t goes on inside the method it has called
GoOn(t) ==
  \/ AddMetric(t)
  \/ SendBatch(t)
  \/ Unlock(t)
  \/ CheckAndSend(t)
  \/ StopWait(t)
  \/ StopFlush(t)

NextManager ==
  \/ \E t \in Callers : CallMethod(t)
  \/ \E t \in Callers : GoOn(t)

\* a thread inside a method runs on, and a thread that waits for the mutex
\* gets it if it is free again and again
SpecManager == InitManager /\ [][NextManager]_vars /\ \A t \in Callers : SF_vars(GoOn(t))

\* ================================================================ claims
BatchSizes(call) == [i \in DOMAIN call.posts |-> Len(call.posts[i].samples)]
ValidCount(sig) == Len(SelectSeq(sig, is_valid_sample))
OrigsOf(sig) == {sig[k].orig : k \in DOMAIN sig} \ {0}
AbsTs(sig) == {start_time + sig[i].ts : i \in DOMAIN sig}
AnswerLo == checked.resp.body[1] - start_time
AnswerHi == checked.resp.body[Len(checked.resp.body)] - start_time
NonEmptyAnswer == checked.called /\ checked.resp.kind = "ok" /\ checked.resp.body # <<>>

\* C1 (SpecReconcile): for every signal and every non-empty answer covering
\* I = [respStart, respEnd], check_signal_range returns no timestamp in the
\* interior of I and exactly len(S) - |{t in S : respStart <= t <= respEnd}|
\* samples.  Stated for the answers a store gives to the query: I inside the
\* span of the signal, and for the values cut documents.
C1_ReconcileExact ==
  (/\ NonEmptyAnswer /\ ~checked.result.unspecified
   /\ signal[1].ts <= AnswerLo /\ AnswerHi <= signal[Len(signal)].ts) =>
    LET out == checked.result.sig
    IN /\ \A k \in DOMAIN out : ~(AnswerLo < out[k].ts /\ out[k].ts < AnswerHi)
       /\ Len(out) = Len(signal)
                     - Cardinality({i \in DOMAIN signal :
                                      AnswerLo <= signal[i].ts /\ signal[i].ts <= AnswerHi})

\* C2 (Spec): the range check of a send removes only samples the store already
\* holds: every (numeric) sample whose timestamp the store does not hold is in
\* the signal check_signal_range returns.
C2_NoDataLost ==
  \A c \in Range(sends) :
    (c.check.called /\ ~c.check.result.unspecified) =>
      \A i \in DOMAIN signal :
        (is_valid_sample(signal[i]) /\ (start_time + signal[i].ts) \notin c.before)
          => i \in OrigsOf(c.check.result.sig)

\* the signal is sent a second time, range check enabled, to a store that
\* holds exactly what the first send uploaded: every sample of the signal
ResendOnFaithfulStore ==
  /\ Len(sends) = 2 /\ ~opts.skip
  /\ ~sends[1].raised /\ ~sends[2].raised
  /\ sends[2].before = Uploaded(sends[1].posts, start_time)
  /\ sends[2].before = AbsTs(signal)

FullOverlapResend ==
  /\ ResendOnFaithfulStore
  /\ sends[2].check.called /\ sends[2].check.resp.kind = "ok"

C5_BatchBound ==
  \A c \in Range(sends) :
    (opts.batch_size > 0 /\ ~c.raised) =>
      LET z == BatchSizes(c)
      IN /\ \A i \in DOMAIN z : 1 <= z[i] /\ z[i] <= opts.batch_size
         /\ \A i \in 1..(Len(z) - 1) : z[i] = opts.batch_size
         /\ SumSeq(z) = ValidCount(signal)

C5_Witness ==
  /\ Len(signal) = 7 /\ ValidCount(signal) = 7 /\ opts.batch_size = 3
  /\ \E c \in Range(sends) : c.fn = "send_signal" /\ BatchSizes(c) = <<3, 3, 1>>

\* C7 (SpecReconcile): when the range query fails (status other than 200,
\* timeout, any exception while requesting or parsing) or answers an empty
\* body, check_signal_range returns the whole input signal, unchanged.
QueryFailed ==
  /\ checked.called
  /\ \/ checked.resp.kind \in {"non200", "timeout", "malformed"}
     \/ checked.resp.kind = "ok" /\ checked.resp.body = <<>>

C7_FailOpen == QueryFailed => checked.result = Returned(signal)

C7_Witness ==
  /\ QueryFailed /\ checked.resp.kind = "non200" /\ Len(signal) = 3
  /\ checked.result.sig = signal

\* C9 (Spec): the count send_signal returns is the number of samples in the
\* batches whose upload call succeeded.
C9_CountsSuccessfulOnly ==
  \A c \in Range(sends) :
    (~c.raised /\ opts.send_opt) =>
      c.ret = SumSeq([i \in DOMAIN c.posts |->
                        IF c.posts[i].ok THEN Len(c.posts[i].samples) ELSE 0])

\* the count a worker handed back
WorkerCount(u) ==
  IF u.raised THEN 0 ELSE IF u.name = 0 THEN DictTotal(u.ret) ELSE u.ret
WorkersTotal == SumSeq([i \in DOMAIN units |-> WorkerCount(units[i])])
MergedTotal ==
  IF mode = "process_files" THEN num_of_samples
  ELSE DictTotal(signals_sample_count)
DispatchEnded == mode \in ChannelModes \cup BatchModes /\ pc \in {"returned", "raised"}

\* C4 (SpecDispatch): when a concurrent dispatch run has ended, whatever the
\* order in which the workers ended, the merged total equals the sum of the
\* counts the workers returned.  Stated for the runs in which every worker
\* returned.
C4_CountConservation ==
  (DispatchEnded /\ \A i \in DOMAIN units : ~units[i].raised) =>
    MergedTotal = WorkersTotal

\* the sends of the run on the name k, and what they reported together
CountSentOn(k) ==
  SumSeq([f \in DOMAIN units |->
            SumSeq([c \in DOMAIN units[f] |->
                      IF units[f][c].name = k THEN units[f][c].ret ELSE 0])])
NoSendRaised ==
  \A f \in DOMAIN units : \A c \in DOMAIN units[f] : ~units[f][c].raised

\* C8 (SpecMerge): when the run has returned, the entry of every signal name
\* is the sum of the counts of all the sends on that name, also when the name
\* was sent several times (several files, several channels of one recording).
\* Stated for decode_and_send over decoded recordings and for send_file, and
\* for the runs in which no send raised.
C8_MergeIsAddition ==
  (mode \in {"decode_and_send", "send_file"} /\ pc = "returned" /\ NoSendRaised) =>
    \A k \in Names : signals_sample_count[k] = CountSentOn(k)

\* how often the recording R is in the returned list
TimesListed(R) == Cardinality({i \in DOMAIN filtered : filtered[i].file.rec = R})

\* C6 (SpecCatalog): the list get_unique_filepaths returns holds no recording
\* twice, whatever copies of its file exist and in whatever order the files
\* are enumerated.
C6_CatalogDedup ==
  listed => \A R \in Recs : TimesListed(R) <= 1

ProbeFailed == probe.kind # "none" /\ ~(probe.kind = "status" /\ probe.code = 200)

RECURSIVE Flatten(_)
Flatten(ss) == IF ss = <<>> THEN <<>> ELSE Head(ss) \o Flatten(Tail(ss))
PostedSamples(call) ==
  Flatten([i \in DOMAIN call.posts |->
             IF call.posts[i].posted THEN call.posts[i].samples ELSE <<>>])
SomeUploadRaised(call) ==
  \E i \in DOMAIN call.posts : call.posts[i].posted /\ ~call.posts[i].ok

\* C11 (SpecEncode): when the upload call of a batch raises (the send_signal
\* option set), send_signal and send_signal_using_json_lines still return
\* normally and every batch of the signal has been posted, each once: the
\* posted batches hold the numeric samples of the signal once each, in order.
C11_BatchFailureNotFatal ==
  \A c \in Range(sends) :
    (SomeUploadRaised(c) /\ opts.send_opt) =>
      /\ ~c.raised
      /\ \A i \in DOMAIN c.posts : c.posts[i].posted
      /\ PostedSamples(c) = SelectSeq(signal, is_valid_sample)

\* the first of three batches raised and the two after it were uploaded
C11_Witness ==
  \E c \in Range(sends) :
    /\ Len(c.posts) = 3
    /\ ~c.posts[1].ok /\ c.posts[2].ok /\ c.posts[3].ok
    /\ ~c.raised /\ opts.send_opt

DistinctNames == \A i, j \in DOMAIN units : units[i].name = units[j].name => i = j
SomeWorkerRaised == \E i \in DOMAIN units : units[i].raised

\* C12 (SpecDispatch): when the send of one signal raises in a worker of
\* send_decoded_threded or process_files, the counts the other workers
\* returned are still in the total the dispatcher hands back.  Stated for
\* recordings whose channels have different names.
C12_CountsSurviveFailures ==
  (DispatchEnded /\ mode \in ChannelModes /\ SomeWorkerRaised /\ DistinctNames) =>
    MergedTotal = WorkersTotal

\* the attempts of a download_with_retry call, oldest first
AttemptsOf(f) == SelectSeq(f.events, LAMBDA e : e \in {"ok", "err"})

\* C13: download_with_retry makes at most max_retries + 1 attempts, makes no
\* attempt after its first success, pauses exactly between two attempts
\* (after a failed attempt that another attempt follows, never after the
\* last attempt) and returns False only when max_retries + 1 attempts have
\* all failed
C13_BoundedRetry ==
  \A i \in DOMAIN downloads :
    LET f == downloads[i]
        n == Len(f.events)
    IN /\ Len(AttemptsOf(f)) <= download.max_retries + 1
       /\ \A p \in 1..n : f.events[p] = "ok" => p = n /\ f.state = "done" /\ f.ret
       /\ \A p \in 1..n : f.events[p] = "sleep" =>
            /\ p > 1 /\ f.events[p - 1] = "err"
            /\ f.state = "done" => p < n
       /\ \A p \in 1..(n - 1) : f.events[p] = "err" => f.events[p + 1] = "sleep"
       /\ (f.state = "done" /\ ~f.ret) =>
            /\ Len(AttemptsOf(f)) = download.max_retries + 1
            /\ \A p \in 1..n : f.events[p] # "ok"
       /\ (f.state = "done" /\ f.ret) => n > 0 /\ f.events[n] = "ok"

\* one download fails on every attempt, another succeeds on its second
C13_Witness ==
  /\ download.max_retries = 2
  /\ \E i, j \in DOMAIN downloads :
       /\ downloads[i].state = "done" /\ ~downloads[i].ret
       /\ downloads[i].events = <<"err", "sleep", "err", "sleep", "err">>
       /\ downloads[j].state = "done" /\ downloads[j].ret
       /\ downloads[j].events = <<"err", "sleep", "ok">>

\* the keys of the call of which some download returned True
SucceededKeys == {k \in Range(download.keys) : \E i \in DOMAIN downloads : downloads[i].key = k /\ downloads[i].ret}

\* C14: download_files_from_s3 issues no download for a key whose local
\* destination exists when the call starts, and the count it returns is the
\* number of keys whose download succeeded: a failed key is not counted and
\* no key is counted twice
C14_SkipAndCount ==
  /\ \A i \in DOMAIN downloads : processed_path(downloads[i].key) \notin download.existed
  /\ dl_pc = "returned" => count = Cardinality(SucceededKeys)

\* C15: when MDF().concatenate / MDF().stack of a group raises, every file of
\* the group is decoded and sent on its own, so the call does not return
\* with the group's files unsent
C15_ConcatFallback ==
  (grp_pc = "returned" /\ joined = "raised") =>
    \E i \in DOMAIN group.files : file_sent[i]

\* the files of the scanned directory whose header reads and whose start time
\* is inside the window
Qualifying == {f \in scanner.files : f.kind # "corrupt" /\ in_window(get_mdf_start_time(f), scanner)}

\* C16: a file whose header read raises does not abort get_files_in_range: the
\* scan is not left by the exception, and the list it returns holds every
\* other file of the directory that is inside the window
C16_CorruptSkipped ==
  /\ ~scan_raised
  /\ listed => \A f \in Qualifying : \E i \in DOMAIN filtered : filtered[i].file = f

\* the start times of the files under base_dir that get_unique_filepaths may
\* list: the header reads, the path is not one of decoded data, the start
\* time is inside the window
ListableStarts == {get_mdf_start_time(f) : f \in {g \in scanner.files : g.kind = "raw" /\ in_window(get_mdf_start_time(g), scanner)}}

ExampleFiles == {[rec |-> 1, copy |-> 0, kind |-> "raw"], [rec |-> 1, copy |-> 1, kind |-> "raw"], [rec |-> 2, copy |-> 0, kind |-> "raw"]}

\* C17: get_unique_filepaths (SnowLeopardTMS) never lists two files with the
\* same start time, whatever their names, and the list it returns has one
\* entry per start time of the listable files: two for the files 0001.MF4 and
\* "0001 (1).MF4" with one start time and a third file with another
C17_TimestampDedup ==
  scanner.fn = "SnowLeopardTMS" =>
    /\ \A i, j \in DOMAIN filtered : filtered[i].start = filtered[j].start => i = j
    /\ listed => Len(filtered) = Cardinality(ListableStarts)
    /\ (listed /\ scanner.files = ExampleFiles /\ scanner.start = 0 /\ scanner.end = 0) => Len(filtered) = 2

\* the copy "0001 (1).MF4" was listed first and the file 0001.MF4, whose name
\* is_duplicate does not find, was rejected for its start time
C17_Witness ==
  /\ scanner.fn = "SnowLeopardTMS" /\ listed
  /\ scanner.files = ExampleFiles /\ scanner.start = 0 /\ scanner.end = 0
  /\ Len(filtered) = 2
  /\ filtered[1].file = [rec |-> 1, copy |-> 1, kind |-> "raw"]
  /\ filtered[2].file.rec = 2

\* the position of a file when the directory is enumerated by name
FileRank(f) == f.rec * (MaxCopies + 1) + f.copy

\* the list get_unique_filepaths builds when rglob yields the files of D in
\* the order of their names
RECURSIVE CatalogInNameOrder(_, _)
CatalogInNameOrder(D, acc) ==
  IF D = {} THEN acc
  ELSE LET f == CHOOSE x \in D : \A y \in D : FileRank(x) <= FileRank(y)
       IN CatalogInNameOrder(D \ {f}, acc \o process_file_tms(f, acc, scanner))

FilesOf(list) == {list[i].file : i \in DOMAIN list}

\* the normalized names (last three path parts without copy suffix) of a list
IdentitiesOf(list) == {strip_copy_suffix(parts(list[i].file)) : i \in DOMAIN list}

ListableIdentities == {strip_copy_suffix(parts(f)) : f \in {g \in scanner.files : g.kind = "raw" /\ in_window(get_mdf_start_time(g), scanner)}}

InWindow(D) == {f \in D : roots.start <= f.rec /\ f.rec <= roots.end}
CloudRecs == {f.rec : f \in InWindow(roots.cloud)}

AnswerContainsSpan(c) ==
  /\ c.check.called /\ c.check.resp.kind = "ok" /\ c.check.resp.body # <<>>
  /\ c.check.resp.body[1] <= start_time + signal[1].ts
  /\ c.check.resp.body[Len(c.check.resp.body)] >= start_time + signal[Len(signal)].ts

\* C20: when the remote range contains the signal's span (respStart <= first
\* timestamp and respEnd >= last timestamp) check_signal_range returns None
\* and send_signal makes no upload call and returns 0
C20_ContainedSendsNothing ==
  \A c \in Range(sends) :
    (~c.raised /\ AnswerContainsSpan(c)) =>
      /\ c.check.result = None
      /\ c.posts = <<>>
      /\ c.ret = 0

\* the store holds the first and the last of three samples, not the middle
\* one, and the second send uploads nothing
C20_Witness ==
  /\ Len(sends) = 2 /\ Len(signal) = 3
  /\ AnswerContainsSpan(sends[2])
  /\ sends[2].before = {start_time + signal[1].ts, start_time + signal[3].ts}
  /\ sends[2].posts = <<>> /\ sends[2].ret = 0

\* the answer lies before the first or after the last timestamp of the signal
AnswerOutsideSpan ==
  /\ NonEmptyAnswer
  /\ (AnswerHi < signal[1].ts \/ AnswerLo > signal[Len(signal)].ts)

\* C21: a non-empty answer whose range lies outside the signal's span is
\* ignored: check_signal_range returns the signal as it is, the first and the
\* last sample included.  Stated for the values cut documents.
C21_OutsideIgnored ==
  (AnswerOutsideSpan /\ ~checked.result.unspecified) =>
    checked.result = Returned(signal)

\* C22: the samples one send_signal call uploads are samples of the signal,
\* each at most once, in the order of the signal: reconciliation, validity
\* filtering and batching do not reorder or duplicate, and the batches are
\* posted in increasing timestamp order.  Stated for the values cut documents.
C22_OrderPreserved ==
  \A c \in Range(sends) :
    (~c.raised /\ ~c.check.result.unspecified) =>
      LET up == PostedSamples(c)
      IN /\ \A k \in DOMAIN up : up[k].orig \in DOMAIN signal /\ up[k] = signal[up[k].orig]
         /\ \A j, k \in DOMAIN up : j < k => up[j].orig < up[k].orig /\ up[j].ts < up[k].ts

\* C23: on every dispatch path that takes a skip predicate, send_signal is
\* not called on a signal whose name the predicate matches, and the name has
\* no count in the returned dict
C23_SkippedNeverSent ==
  \A k \in Names :
    (dispatch.skip_given /\ k \in dispatch.skip_names) =>
      /\ \A i \in DOMAIN sent_signals : sent_signals[i] # k
      /\ sent_counts[k] = 0

\* C24: in D65 send_files_to_victoriametrics every decode takes files of one
\* category, Upper or Lower, uses the definitions of that category and sends
\* under that job, for every stack_size and every mix of categories; when
\* the call has returned every Upper and every Lower file was in exactly one
\* decode
C24_JobFollowsCategory ==
  stack.fn = "D65" =>
    /\ \A d \in DOMAIN decodes :
         /\ decodes[d].job \in {"Upper", "Lower"} /\ decodes[d].dbc = decodes[d].job
         /\ decodes[d].files # {}
         /\ \A i \in decodes[d].files : stack.files[i] = decodes[d].job
    /\ st_pc = "returned" =>
         \A i \in DOMAIN stack.files :
           stack.files[i] \in {"Upper", "Lower"} =>
             Cardinality({d \in DOMAIN decodes : i \in decodes[d].files}) = 1

\* a batch of three files Upper, Lower, Upper is split into a stack of the
\* two Upper files and a stack of the Lower file
C24_Witness ==
  /\ stack.fn = "D65"
  /\ st_pc = "returned" /\ stack.stack_size = 3
  /\ stack.files = <<"Upper", "Lower", "Upper">>
  /\ decodes = <<Decode("Upper", "Upper", {1, 3}), Decode("Lower", "Lower", {2})>>

\* C25: every remote call is bounded by a timeout, so whatever the store
\* does every worker returns and the pool is left (or the driver has exited
\* on the reachability check)
C25_PoolTerminates == <>(remote_pc \in {"done", "exited"})

\* C26: once the run is interrupted no download that had not started is
\* started, no download is attempted again after it has finished, and the
\* count of the interrupted call is not raised any more
C26_NoStartAfterInterrupt ==
  [][dl_pc = "interrupted" =>
       /\ \A i \in DOMAIN downloads : downloads'[i].started => downloads[i].started
       /\ \A i \in DOMAIN downloads : downloads[i].state = "done" => downloads'[i] = downloads[i]
       /\ count' = count]_vars

C28_SortFollowsCaller ==
  (uq_pc = "returned" /\ roots.sorted) =>
    /\ {full_order[i] : i \in DOMAIN full_order} = full_list
    /\ \A i, j \in DOMAIN full_order :
         i < j => IF roots.reverse_sort
                  THEN get_mdf_start_time(full_order[i]) >= get_mdf_start_time(full_order[j])
                  ELSE get_mdf_start_time(full_order[i]) <= get_mdf_start_time(full_order[j])

\* C29: no step lowers or removes an entry of a map of counts: the map of
\* decode_and_send (signals_sample_count) never falls, and while send_decoded
\* or send_file works through the channels of one file the map it builds
\* (result) never falls
C29_CountsMonotone ==
  [][/\ \A k \in Names : signals_sample_count'[k] >= signals_sample_count[k]
     /\ cursor'[1] = cursor[1] => \A k \in Names : result'[k] >= result[k]]_vars

\* C30: a send_signal call whose send_signal option is False makes no upload
\* call, whatever the length of the signal and the batch_size: none of its
\* batches is posted, the final partial batch included
C30_DryRunPostsNothing ==
  ~opts.send_opt =>
    \A c \in Range(sends) :
      c.fn = "send_signal" => \A i \in DOMAIN c.posts : ~c.posts[i].posted

\* C31: in get_unique_filepaths, for every max_workers, no file is submitted
\* while the result of another is pending, a worker's decision is the one
\* _process_file makes against the accepted list as the main thread holds
\* it, and the accepted list never holds two files of one name (without copy
\* suffix) or of one start time
C31_DecisionsSerial ==
  /\ Len(in_pool) <= 1
  /\ \A i \in DOMAIN in_pool :
       in_pool[i].state # "queued" =>
         in_pool[i].result = process_file_tms(in_pool[i].file, filtered, scanner)
  /\ \A i, j \in DOMAIN filtered :
       (\/ filtered[i].start = filtered[j].start
        \/ strip_copy_suffix(parts(filtered[i].file)) = strip_copy_suffix(parts(filtered[j].file))) => i = j

\* max_workers = 2, two copies of one recording and a third file: a worker
\* has decided on the second copy, against the list that holds the first
C31_Witness ==
  /\ scanner.fn = "SnowLeopardTMS" /\ "max_workers" \in DOMAIN scanner /\ scanner.max_workers = 2
  /\ scanner.files = ExampleFiles
  /\ Len(filtered) = 1 /\ filtered[1].file.rec = 1
  /\ Len(in_pool) = 1 /\ in_pool[1].state = "done"
  /\ in_pool[1].file.rec = 1 /\ in_pool[1].result = <<>>

\* C32: D65 send_files_to_victoriametrics hands the caller's
\* skip_signal_range_check to every send_decoded, for every stack_size:
\* called with False, every decode is sent with the range check on
C32_CallerFlagApplied ==
  stack.fn = "D65" =>
    \A d \in DOMAIN skip_passed : skip_passed[d] = stack.skip_signal_range_check

\* what send_decoded returns on the decoded MDF of the call's file: per name
\* the count of the last channel of that name that is not passed over
CountsOfMdfForm(d) ==
  [k \in Names |->
     LET at == {i \in DOMAIN d.channels : d.channels[i].name = k /\ ~(d.skip_given /\ k \in d.skip_names)}
     IN IF at = {} THEN 0
        ELSE d.channels[CHOOSE i \in at : \A j \in at : j <= i].ret]

\* C33: send_decoded given a Path returns the map it returns given the
\* decoded MDF of that file, a map that is not empty when samples were sent
C33_PathLikeMdf ==
  (dispatch.path = "send_decoded(Path)" /\ sk_pc = "returned") =>
    /\ sent_counts = CountsOfMdfForm(dispatch)
    /\ sent_signals # <<>> => \E k \in Names : sent_counts[k] > 0

\* C34: the count send_signal_using_json_lines returns (send_signal option
\* set) is the number of samples in the batches whose upload call did not
\* raise: N when N numeric samples are sent without a failure
C34_JsonLinesCountsSamples ==
  \A c \in Range(sends) :
    (c.fn = "send_signal_using_json_lines" /\ ~c.raised /\ opts.send_opt) =>
      c.ret = SumSeq([i \in DOMAIN c.posts |->
                        IF c.posts[i].ok THEN Len(c.posts[i].samples) ELSE 0])

\* the batch of stack_size consecutive inputs the file at index i is in
BatchOf(i) == (i - 1) \div stack_size_used

C36_WindowsCover ==
  (vm_pc = "returned" /\ vm_range.start_date < vm_range.end_date) =>
    /\ \A k \in DOMAIN vm_windows :
         /\ vm_windows[k].day_start < vm_windows[k].day_end
         /\ vm_windows[k].day_end <= vm_range.end_date
         /\ k > 1 => vm_windows[k].day_start = vm_windows[k - 1].day_end
    /\ vm_windows # <<>>
    /\ vm_windows[1].day_start = vm_range.start_date
    /\ vm_windows[Len(vm_windows)].day_end = vm_range.end_date

\* C37: for every catalog the month-by-month loop of the SnowLeopardTMS
\* driver ends with the pending list empty: every recording is selected into
\* a monthly chunk and removed
C37_PendingListEmpties == <>(tms_pc = "done" /\ tms_filtered = <<>>)

\* C38: every call of add_metric, check_and_send and stop returns, from
\* whatever threads the calls come: a thread that is inside a method of the
\* MetricsManager gets out of it
C38_EveryCallReturns ==
  \A t \in Callers : (mm_calls[t].pc # "idle") ~> (mm_calls[t].pc = "idle")

\* C39: one download per destination: no two downloads that pool threads
\* are running write the same local destination, and the count returned
\* is at most the number of distinct keys of the key list
C39_OneDownloadPerDestination ==
  /\ \A i, j \in in_flight(downloads) : i # j => processed_path(downloads[i].key) # processed_path(downloads[j].key)
  /\ dl_pc = "returned" => count <= Cardinality(Range(download.keys))

====
